---------------------------- MODULE Spec2Model ----------------------------
(***************************************************************************)
(* ESP Web Controller (SH1106 sketch): mode controller, remote fetches and *)
(* the sparse-canvas codec, modelled as a sequential program.              *)
(*                                                                         *)
(* The sketch is single threaded.  pc is the stack of program labels still *)
(* to run: Head(pc) is the function (or the point of loop()) that runs     *)
(* next, and a call pushes the callee in front of the caller's             *)
(* continuation.  Arduino Strings that the code indexes are sequences of   *)
(* one-character strings; mode names and the user id are only compared and *)
(* are plain strings.  A grid bool[96][48] is the set of its true cells.   *)
(***************************************************************************)
EXTENDS Integers, Sequences, FiniteSets, TLC

VARIABLES
  pc,                       \* stack of labels, Head(pc) runs next
  clock,                    \* millis()
  now,                      \* local 'now' of loop() / loopXxx()
  apiKey,                   \* char apiKey[45]
  wifiOk,                   \* WiFi.status() == WL_CONNECTED at the last sample
  http,                     \* response of the last http.GET()
  fetchOk,                  \* value returned by the last fetchUserData()
  userId,
  currentMode,
  lastMode,
  lastModeCheck,
  dataLoaded,
  displayMessage,
  currentAnimation,
  animationPos,
  pulseState,
  pulseDirection,
  cornerAngle,
  scanPos,
  breatheSize,
  breatheDir,
  lastOledFetch,
  canvas,
  lastCanvasFetch,
  pixelPaintHasData,
  imagePixelCanvas,
  lastImagePixelFetch,
  imagePixelHasData,
  cities,                   \* mutable temp / humidity of every catalog entry
  currentCity,
  lastCity,
  lastWeatherSettingsFetch,
  lastWeatherFetch,
  weatherDataLoaded,
  tzCity,                   \* catalog index whose tz rule setenv("TZ") holds, -1 = UTC
  screen,                   \* last frame sent to the display
  canvasData,               \* argument of the running parseCanvasData
  target,                   \* which grid the running parseCanvasData writes
  scanI,                    \* scan index i of parseCanvasData
  lines,                    \* lines[0..numLines-1] of the running drawMessage
  lineStart,                \* lineStart of the running drawMessage
  configPin,                \* digitalRead(CONFIG_PIN) at the last sample
  pressStart,               \* local 'pressStart' of checkConfigButton(), 0 outside it
  wifiSaved,                \* WiFi credentials are stored in flash
  eeprom,                   \* the key bytes at API_KEY_ADDR of the EEPROM
  reconnecting,             \* WiFi.reconnect() was called since the last connected sample
  enteredMode,              \* history: the mode initCurrentMode() last ran for,
                            \* "-" before the first run and once currentMode has changed
  ticks                     \* history: the number of loop() iterations started

modeVars  == <<userId, currentMode, lastMode, dataLoaded, enteredMode>>
timerVars == <<lastModeCheck, lastOledFetch, lastCanvasFetch, lastImagePixelFetch,
               lastWeatherSettingsFetch, lastWeatherFetch>>
oledVars  == <<displayMessage, currentAnimation>>
animVars  == <<animationPos, pulseState, pulseDirection, cornerAngle, scanPos,
               breatheSize, breatheDir>>
gridVars  == <<canvas, pixelPaintHasData, imagePixelCanvas, imagePixelHasData>>
cityVars  == <<cities, currentCity, lastCity, weatherDataLoaded, tzCity>>
envVars   == <<clock, now, apiKey, wifiOk>>
textVars  == <<lines, lineStart>>
scanVars  == <<canvasData, target, scanI, textVars>>
flashVars == <<wifiSaved, eeprom>>
boardVars == <<configPin, pressStart, flashVars, reconnecting>>
tickVars  == <<ticks>>
vars == <<pc, http, fetchOk, screen, modeVars, timerVars, oledVars, animVars,
          gridVars, cityVars, envVars, scanVars, boardVars, tickVars>>

-----------------------------------------------------------------------------
(* Program constants *)

SCREEN_WIDTH == 128
SCREEN_HEIGHT == 64
GRID_W == 96
GRID_H == 48
NUM_CITIES == 40
MODE_CHECK_INTERVAL == 3000
OLED_FETCH_INTERVAL == 5000
CANVAS_FETCH_INTERVAL == 1000
IMAGE_PIXEL_FETCH_INTERVAL == 1000
WEATHER_SETTINGS_INTERVAL == 3000
WEATHER_FETCH_INTERVAL == 60000
HTTP_CODE_OK == 200
LONG_MAX == 2147483647
LONG_MIN == (0 - LONG_MAX) - 1
LongPress == 3000          \* millis() - pressStart > 3000
PortalTimeout == 180       \* wm.setConfigPortalTimeout(180), in seconds

(* Bounds of the model *)

MaxLen == 4          \* longest raw character string handed to the decoder
MaxPairs == 3        \* most pairs in a well-formed canvas string
MaxClock == 8200     \* loop() is not entered once millis() has passed this
MaxTicks == 2        \* loop() is not entered more often than this
MaxPressClock == 3600  \* the config button is not pressed once millis() has passed this

-----------------------------------------------------------------------------
(* Arduino String, as far as the sketch uses it *)

Digits == <<"0", "1", "2", "3", "4", "5", "6", "7", "8", "9">>

IsDigit(c) == \E k \in 1..10 : Digits[k] = c

DigitVal(c) == (CHOOSE k \in 1..10 : Digits[k] = c) - 1

\* isspace(c): space, \t, \n, vertical tab (0x0b), \f, \r
IsSpace(c) == c \in {" ", "\t", "\n", "", "\f", "\r"}

\* String::indexOf(ch, fromIndex), 0-based, -1 when absent
IndexOf(s, ch, from) ==
  IF from >= Len(s) THEN -1
  ELSE LET hits == {j \in from..(Len(s) - 1) : s[j + 1] = ch}
       IN  IF hits = {} THEN -1
           ELSE CHOOSE j \in hits : \A k \in hits : j <= k

\* String::substring(left, right), 0-based, right exclusive
Substring(s, left, right) ==
  LET l  == IF left > right THEN right ELSE left
      r0 == IF left > right THEN left ELSE right
      r  == IF r0 > Len(s) THEN Len(s) ELSE r0
  IN  IF l >= Len(s) THEN <<>> ELSE SubSeq(s, l + 1, r)

RECURSIVE SkipSpaces(_, _)
SkipSpaces(s, k) ==
  IF k <= Len(s) /\ IsSpace(s[k]) THEN SkipSpaces(s, k + 1) ELSE k

\* the digits of s from position k on, saturating like strtol
RECURSIVE AccDigits(_, _, _)
AccDigits(s, k, acc) ==
  IF k > Len(s) \/ ~IsDigit(s[k]) THEN acc
  ELSE LET d == DigitVal(s[k])
       IN  AccDigits(s, k + 1,
                     IF acc > (LONG_MAX - d) \div 10 THEN LONG_MAX
                     ELSE acc * 10 + d)

\* the digits after a '-', saturating at LONG_MIN like strtol
RECURSIVE AccDigitsNeg(_, _, _)
AccDigitsNeg(s, k, acc) ==
  IF k > Len(s) \/ ~IsDigit(s[k]) THEN acc
  ELSE LET d    == DigitVal(s[k])
           room == (LONG_MAX - (IF d > 0 THEN d - 1 ELSE 0)) \div 10
       IN  AccDigitsNeg(s, k + 1,
                        IF acc = LONG_MIN \/ 0 - acc > room THEN LONG_MIN
                        ELSE acc * 10 - d)

\* String::toInt(): atol of the buffer
ToInt(s) ==
  LET k    == SkipSpaces(s, 1)
      neg  == k <= Len(s) /\ s[k] = "-"
      sgn  == k <= Len(s) /\ s[k] \in {"-", "+"}
  IN  IF neg THEN AccDigitsNeg(s, k + 1, 0)
      ELSE AccDigits(s, IF sgn THEN k + 1 ELSE k, 0)

-----------------------------------------------------------------------------
(* unsigned long: millis() and the time stamps are 32-bit words. A word is  *)
(* written as the integer of -2^31 .. 2^31-1 with the same 32 bits: u for   *)
(* u < 2^31 and u - 2^32 above, so 4294967295 is -1 and the step of         *)
(* millis() from 2^32-1 to 0 is the step from -1 to 0.                      *)

WordMax == 2147483647

\* a - b of two unsigned long, modulo 2^32
Sub32(a, b) ==
  IF b < 0 /\ a > WordMax + b
  THEN ((a - WordMax) - (b + WordMax)) - 2
  ELSE IF b > 0 /\ a < ((0 - WordMax) - 1) + b
  THEN ((a + WordMax) - (b - WordMax)) + 2
  ELSE a - b

\* a + b of two unsigned long, modulo 2^32
Add32(a, b) == Sub32(a, Sub32(0, b))

\* a > b of two unsigned long
GtU32(a, b) == IF (a < 0) = (b < 0) THEN a > b ELSE a < 0

-----------------------------------------------------------------------------
(* parseCanvasData *)

\* memset(targetCanvas, 0, ...)
ClearGrid_NoMemset(grid) == grid

ClearGrid(grid) == {}

\* the bounds test guarding targetCanvas[x][y] = true
InGrid_OffByOne(x, y) == x >= 0 /\ x <= GRID_W /\ y >= 0 /\ y <= GRID_H

InGrid(x, y) == x >= 0 /\ x < GRID_W /\ y >= 0 /\ y < GRID_H

\* the end of the y token: semi < 0 ? canvasData.length() : semi
TokenEnd_ShortLast(s, semi) == IF semi < 0 THEN Len(s) - 1 ELSE semi

TokenEnd(s, semi) == IF semi < 0 THEN Len(s) ELSE semi

\* the x and y read by one iteration
PairAt_YFromComma(s, i, comma, semi) ==
  <<ToInt(Substring(s, i, comma)),
    ToInt(Substring(s, comma, TokenEnd(s, semi)))>>

PairAt(s, i, comma, semi) ==
  <<ToInt(Substring(s, i, comma)),
    ToInt(Substring(s, comma + 1, TokenEnd(s, semi)))>>

\* i = semi + 1
NextIndex_NoAdvance(semi) == semi

NextIndex(semi) == semi + 1

\* One iteration of the while loop at scan index i on grid:
\* the grid after it, the next index, and whether the loop goes on.
ScanIter(s, i, grid) ==
  LET comma == IndexOf(s, ",", i)
      semi  == IndexOf(s, ";", i)
  IN  IF comma < 0
      THEN [grid |-> grid, i |-> i, more |-> FALSE]
      ELSE LET p == PairAt(s, i, comma, semi)
               g == IF InGrid(p[1], p[2]) THEN grid \cup {p} ELSE grid
           IN  IF semi < 0
               THEN [grid |-> g, i |-> i, more |-> FALSE]
               ELSE [grid |-> g, i |-> NextIndex(semi),
                     more |-> NextIndex(semi) < Len(s)]

RECURSIVE ScanFrom(_, _, _)
ScanFrom(s, i, grid) ==
  LET r == ScanIter(s, i, grid)
  IN  IF r.more THEN ScanFrom(s, r.i, r.grid) ELSE r.grid

\* the grid parseCanvasData(canvasData, targetCanvas) leaves in targetCanvas
parseCanvasData(s, grid) ==
  IF Len(s) = 0 THEN ClearGrid(grid) ELSE ScanFrom(s, 0, ClearGrid(grid))

-----------------------------------------------------------------------------
(* Remote Sync Port: what http.GET() and deserializeJson() hand to the sketch *)

\* a JSON object is the function from its keys to their values
NoDoc == [k \in {} |-> 0]

Timeout == [code |-> -11, parsed |-> FALSE, doc |-> NoDoc]
NotFound == [code |-> 404, parsed |-> FALSE, doc |-> NoDoc]
Garbage == [code |-> HTTP_CODE_OK, parsed |-> FALSE, doc |-> NoDoc]
Failures == {Timeout, NotFound, Garbage}

Ok(doc) == [code |-> HTTP_CODE_OK, parsed |-> TRUE, doc |-> doc]

NullStr == <<"n", "u", "l", "l">>

\* doc[key].as<String>() for the strings the sketch indexes
AsString(doc, key) == IF key \in DOMAIN doc THEN doc[key] ELSE NullStr

\* doc[key].as<String>() for the strings the sketch only compares
AsName(doc, key) == IF key \in DOMAIN doc THEN doc[key] ELSE "null"

\* doc[key].as<int>() and doc[key].as<float>()
AsNumber(doc, key) == IF key \in DOMAIN doc THEN doc[key] ELSE 0

PolledModes == {"", "oled", "pixel-paint", "image-to-pixel", "weather", "none", "clock"}

UserDataResponses ==
  Failures \cup {Ok(NoDoc)}
    \cup {Ok(("userId" :> "u1") @@ ("activeSketch" :> m)) : m \in PolledModes}

Msg_Boot == <<"E", "S", "P", "3", "2", "\n", "C", "o", "n", "t", "r", "o", "l", "l", "e", "r">>
Msg_Hi == <<"H", "i">>

OledResponses ==
  Failures \cup {Ok(NoDoc),
                 Ok(("message" :> Msg_Hi) @@ ("animation" :> 2)),
                 Ok(("message" :> Msg_Hi) @@ ("animation" :> 7))}

Data_Two == <<"2", ",", "3", ";", "5", ",", "5", ";">>
Data_One == <<"1", ",", "1">>

CanvasResponses ==
  Failures \cup {Ok(NoDoc), Ok("canvas" :> <<>>), Ok("canvas" :> Data_Two),
                 Ok("canvas" :> Data_One)}

WeatherSettingsResponses ==
  Failures \cup {Ok(NoDoc)} \cup {Ok("selectedCity" :> c) : c \in {-1, 0, 39, 40}}

WeatherResponses ==
  Failures \cup {Ok(NoDoc), Ok(("temp" :> 25) @@ ("humidity" :> 60))}

\* time between the return of one loop() and the millis() of the next, beyond
\* the delay() calls: none, or enough for every refresh to be due
ElapsedLoop == {0, 5100}

ValidKey == <<"e", "s", "p", "_", "k">>
StoredKeys == {<<>>, ValidKey, <<"x">>}
SetupKeys == {<<>>, ValidKey}
PortalKeys == {<<>>, <<"x">>}
HoldTimes == {3001}

\* the local time getLocalTime() fills in
FrameTimes == {[hour |-> 15, min |-> 7, sec |-> 59]}

\* what wm.autoConnect() takes when it connects, in ms
ConnectTimes == {1000}

\* levels of the config pin, the time between two samples of the hold-wait
\* loop, and the time a portal opened by the button stays open, in ms
PinLevels == {"HIGH", "LOW"}
HoldSteps == {3000, 3001}
PortalTimes == {2000}

\* strncmp(apiKey, "esp_", 4) == 0
HasEspPrefix(k) == Len(k) >= 4 /\ SubSeq(k, 1, 4) = <<"e", "s", "p", "_">>

-----------------------------------------------------------------------------
(* State after construction of the globals, before setup() *)

Show(kind, data) == [kind |-> kind, data |-> data]

\* the globals other than the two grids, as their initialisers leave them
Globals ==
  /\ clock = 0
  /\ now = 0
  /\ apiKey = <<>>
  /\ wifiOk = FALSE
  /\ http = Timeout
  /\ fetchOk = FALSE
  /\ userId = ""
  /\ enteredMode = "-"
  /\ currentMode = ""
  /\ lastMode = ""
  /\ lastModeCheck = 0
  /\ dataLoaded = FALSE
  /\ displayMessage = Msg_Boot
  /\ currentAnimation = 1
  /\ animationPos = 0
  /\ pulseState = 0
  /\ pulseDirection = 1
  /\ cornerAngle = 0
  /\ scanPos = 0
  /\ breatheSize = 0
  /\ breatheDir = 1
  /\ lastOledFetch = 0
  /\ lastCanvasFetch = 0
  /\ pixelPaintHasData = FALSE
  /\ lastImagePixelFetch = 0
  /\ imagePixelHasData = FALSE
  /\ cities = [c \in 0..(NUM_CITIES - 1) |-> [temp |-> 0, humidity |-> 0]]
  /\ currentCity = -1
  /\ lastCity = -1
  /\ lastWeatherSettingsFetch = 0
  /\ lastWeatherFetch = 0
  /\ weatherDataLoaded = FALSE
  /\ tzCity = -1
  /\ screen = Show("blank", "")
  /\ canvasData = <<>>
  /\ target = "canvas"
  /\ scanI = 0
  /\ lines = <<>>
  /\ lineStart = 0
  /\ configPin = "HIGH"
  /\ pressStart = 0
  /\ reconnecting = FALSE

Init ==
  /\ ticks = 0
  /\ pc = <<"setup">>
  /\ canvas = {}
  /\ imagePixelCanvas = {}
  /\ wifiSaved \in BOOLEAN
  /\ eeprom \in StoredKeys
  /\ Globals

At(label) == pc # <<>> /\ Head(pc) = label

\* return to the caller
Return == pc' = Tail(pc)

\* run the labels ls, then the caller's continuation
Continue(ls) == pc' = ls \o Tail(pc)

-----------------------------------------------------------------------------
(* delay(ms): millis() moves on by ms. A call is the label "delay_<ms>" on *)
(* the stack; everything else the sketch does takes no time.               *)

DelayLabels == {"delay_10", "delay_50", "delay_100", "delay_500",
                "delay_1000", "delay_2000", "delay_3000", "delay_5000"}

DelayMs(label) ==
  CASE label = "delay_10" -> 10
    [] label = "delay_50" -> 50
    [] label = "delay_100" -> 100
    [] label = "delay_500" -> 500
    [] label = "delay_1000" -> 1000
    [] label = "delay_2000" -> 2000
    [] label = "delay_3000" -> 3000
    [] label = "delay_5000" -> 5000

delay(label) ==
  /\ At(label)
  /\ clock' = clock + DelayMs(label)
  /\ Return
  /\ UNCHANGED <<http, fetchOk, screen, modeVars, timerVars, oledVars, animVars,
                 gridVars, cityVars, now, apiKey, wifiOk, scanVars, boardVars,
                 tickVars>>

-----------------------------------------------------------------------------
(* setup() and setupWiFiManager() *)

\* the key as the EEPROM validation of setup() leaves it
LoadedKey(stored) == IF HasEspPrefix(stored) THEN stored ELSE <<>>

\* saveConfigCallback(): the portal's key field, when not empty, becomes the
\* key, in apiKey and in the EEPROM alike
saveConfigCallback(key, value) == IF Len(value) > 0 THEN value ELSE key

\* setup() up to the call of setupWiFiManager(): the key is read from the
\* EEPROM and validated, "Starting..." is shown, both canvases are cleared
Setup ==
  /\ At("setup")
  /\ apiKey' = LoadedKey(eeprom)
  /\ screen' = Show("message", "Starting...")
  /\ canvas' = {}
  /\ imagePixelCanvas' = {}
  /\ pc' = <<"setupWiFiManager", "setup_sync", "loop">>
  /\ UNCHANGED <<http, fetchOk, modeVars, timerVars, oledVars, animVars,
                 pixelPaintHasData, imagePixelHasData, cityVars, clock, now,
                 wifiOk, scanVars, boardVars, tickVars>>

\* setupWiFiManager() up to wm.autoConnect(): the first-time instructions
\* when no network is stored (WiFi.SSID() == ""), else "Connecting WiFi..."
setupWiFiManager ==
  /\ At("setupWiFiManager")
  /\ screen' = IF wifiSaved THEN Show("message", "Connecting WiFi...")
               ELSE Show("status", "FirstTimeSetup")
  /\ Continue(<<"autoConnect">>)
  /\ UNCHANGED <<http, fetchOk, modeVars, timerVars, oledVars, animVars,
                 gridVars, cityVars, envVars, scanVars, boardVars, tickVars>>

\* wm.autoConnect("ESP32-Setup") returns after t ms. ok: connected, with the
\* stored network or with one saved in its portal, whose key field is entered
\* (empty when no portal opened or the field was left empty); then
\* "Connected!" and delay(1000). Not ok: the portal ran into its timeout;
\* then "WiFi Failed", delay(2000) and ESP.restart().
autoConnect(ok, entered, t) ==
  /\ At("autoConnect")
  /\ IF ok
     THEN /\ clock' = clock + t
          /\ wifiOk' = TRUE
          /\ wifiSaved' = TRUE
          /\ apiKey' = saveConfigCallback(apiKey, entered)
          /\ eeprom' = saveConfigCallback(eeprom, entered)
          /\ screen' = Show("message", "Connected!")
          /\ Continue(<<"delay_1000">>)
     ELSE /\ clock' = clock + PortalTimeout * 1000
          /\ screen' = Show("message", "WiFi Failed")
          /\ Continue(<<"delay_2000", "restart">>)
          /\ UNCHANGED <<wifiOk, apiKey, flashVars>>
  /\ UNCHANGED <<http, fetchOk, modeVars, timerVars, oledVars, animVars,
                 gridVars, cityVars, now, scanVars, configPin, pressStart,
                 reconnecting, tickVars>>

\* ESP.restart(): every global is back at its initialiser and millis() at 0,
\* the flash keeps the stored network and the EEPROM; setup() runs again
restart ==
  /\ At("restart")
  /\ pc' = <<"setup">>
  /\ canvas' = {}
  /\ imagePixelCanvas' = {}
  /\ clock' = 0
  /\ now' = 0
  /\ apiKey' = <<>>
  /\ wifiOk' = FALSE
  /\ http' = Timeout
  /\ fetchOk' = FALSE
  /\ userId' = ""
  /\ enteredMode' = "-"
  /\ currentMode' = ""
  /\ lastMode' = ""
  /\ lastModeCheck' = 0
  /\ dataLoaded' = FALSE
  /\ displayMessage' = Msg_Boot
  /\ currentAnimation' = 1
  /\ animationPos' = 0
  /\ pulseState' = 0
  /\ pulseDirection' = 1
  /\ cornerAngle' = 0
  /\ scanPos' = 0
  /\ breatheSize' = 0
  /\ breatheDir' = 1
  /\ lastOledFetch' = 0
  /\ lastCanvasFetch' = 0
  /\ pixelPaintHasData' = FALSE
  /\ lastImagePixelFetch' = 0
  /\ imagePixelHasData' = FALSE
  /\ cities' = [c \in 0..(NUM_CITIES - 1) |-> [temp |-> 0, humidity |-> 0]]
  /\ currentCity' = -1
  /\ lastCity' = -1
  /\ lastWeatherSettingsFetch' = 0
  /\ lastWeatherFetch' = 0
  /\ weatherDataLoaded' = FALSE
  /\ tzCity' = -1
  /\ screen' = Show("blank", "")
  /\ canvasData' = <<>>
  /\ target' = "canvas"
  /\ scanI' = 0
  /\ lines' = <<>>
  /\ lineStart' = 0
  /\ configPin' = "HIGH"
  /\ pressStart' = 0
  /\ reconnecting' = FALSE
  /\ UNCHANGED <<flashVars, tickVars>>

\* setup() after setupWiFiManager(): the first sync when there is a key,
\* else the no-key screen and delay(3000)
SetupSync ==
  /\ At("setup_sync")
  /\ IF apiKey # <<>>
     THEN /\ screen' = Show("message", "Syncing...")
          /\ Continue(<<"fetchUserData", "setup_synced">>)
     ELSE /\ screen' = Show("status", "NoApiKeyConnected")
          /\ Continue(<<"delay_3000">>)
  /\ UNCHANGED <<http, fetchOk, modeVars, timerVars, oledVars, animVars,
                 gridVars, cityVars, envVars, scanVars, boardVars, tickVars>>

\* if (fetchUserData()) initCurrentMode(); else showMessage("Sync failed...")
SetupSynced ==
  /\ At("setup_synced")
  /\ IF fetchOk
     THEN Continue(<<"initCurrentMode">>) /\ UNCHANGED screen
     ELSE Continue(<<"delay_3000">>) /\ screen' = Show("message", "Sync failed")
  /\ UNCHANGED <<http, fetchOk, modeVars, timerVars, oledVars, animVars,
                 gridVars, cityVars, envVars, scanVars,
                 boardVars, tickVars>>

-----------------------------------------------------------------------------
(* loop() *)

\* now - lastModeCheck > MODE_CHECK_INTERVAL
PollDue_Inclusive(n, last) ==
  ~GtU32(MODE_CHECK_INTERVAL, Sub32(n, last))

PollDue(n, last) == GtU32(Sub32(n, last), MODE_CHECK_INTERVAL)

\* currentMode == "" || currentMode == "null" || currentMode == "none"
IsUnset(m) == m \in {"", "null", "none"}

KnownModes == {"oled", "pixel-paint", "image-to-pixel", "weather"}

\* the loopXxx() that the dispatch chain of loop() calls for mode m
LoopOf_UnknownAsOled(m) ==
  CASE m = "pixel-paint" -> "loopPixelPaint"
    [] m = "image-to-pixel" -> "loopImageToPixel"
    [] m = "weather" -> "loopWeather"
    [] OTHER -> "loopOLED"

LoopOf(m) ==
  CASE m = "oled" -> "loopOLED"
    [] m = "pixel-paint" -> "loopPixelPaint"
    [] m = "image-to-pixel" -> "loopImageToPixel"
    [] m = "weather" -> "loopWeather"
    [] OTHER -> "showWelcomeScreen"

ModeChanged(cur, last) == cur # last

\* WiFi.status() != WL_CONNECTED
WiFiLost_Never(w) == FALSE

WiFiLost(w) == ~w

\* loop() from the apiKey test on: 'now' is n and WiFi.status() is sampled
\* as w; showNoApiKey and return, or showNoWiFi, WiFi.reconnect() and
\* return, or the mode poll when it is due
LoopChecks(w, n) ==
  /\ wifiOk' = w
  /\ IF apiKey = <<>>
     THEN /\ screen' = Show("status", "NoApiKey")
          /\ pc' = <<"delay_2000", "loop">>
          /\ UNCHANGED reconnecting
     ELSE IF WiFiLost(w)
     THEN /\ screen' = Show("status", "NoWiFi")
          /\ pc' = <<"delay_5000", "loop">>
          /\ reconnecting' = TRUE
     ELSE /\ UNCHANGED screen
          /\ reconnecting' = FALSE
          /\ pc' = IF PollDue(n, lastModeCheck)
                   THEN <<"fetchUserData", "loop_polled", "loop">>
                   ELSE <<"loop_modechange", "loop">>

\* Start of an iteration: millis() is read d ms after the last delay() ended,
\* the config button is sampled released, the key and WiFi (w) are checked,
\* and the mode poll is started when it is due.
LoopEnterBy(d, w, limit, most) ==
  /\ At("loop")
  /\ clock + d <= limit
  /\ ticks < most
  /\ ticks' = ticks + 1
  /\ clock' = clock + d
  /\ now' = clock'
  /\ configPin' = "HIGH"
  /\ LoopChecks(w, now')
  /\ UNCHANGED <<http, fetchOk, modeVars, timerVars, oledVars, animVars,
                 gridVars, cityVars, apiKey, scanVars, pressStart, flashVars>>

LoopEnter(d, w) == LoopEnterBy(d, w, MaxClock, MaxTicks)

-----------------------------------------------------------------------------
(* checkConfigButton() *)

\* millis() - pressStart > 3000
HeldLong_Inclusive(t, start) == ~GtU32(LongPress, Sub32(t, start))

HeldLong(t, start) == GtU32(Sub32(t, start), LongPress)

\* Start of an iteration in which the config button is sampled pressed:
\* millis() is read d ms after the last delay() ended, then checkConfigButton()
\* finds the pin LOW and calls delay(50)
LoopPressedBy(d, limit, most) ==
  /\ At("loop")
  /\ clock + d <= limit
  /\ ticks < most
  /\ ticks' = ticks + 1
  /\ clock' = clock + d
  /\ now' = clock'
  /\ configPin' = "LOW"
  /\ pc' = <<"delay_50", "checkConfigButton_pressStart",
             "checkConfigButton_hold", "loop_checks", "loop">>
  /\ UNCHANGED <<http, fetchOk, screen, modeVars, timerVars, oledVars, animVars,
                 gridVars, cityVars, apiKey, wifiOk, scanVars, pressStart,
                 flashVars, reconnecting>>

LoopPressed(d) == LoopPressedBy(d, MaxPressClock, MaxTicks)

\* unsigned long pressStart = millis();
checkConfigButton_pressStart ==
  /\ At("checkConfigButton_pressStart")
  /\ pressStart' = clock
  /\ Return
  /\ UNCHANGED <<http, fetchOk, screen, modeVars, timerVars, oledVars, animVars,
                 gridVars, cityVars, envVars, scanVars, configPin, flashVars,
                 reconnecting, tickVars>>

\* One pass of the hold-wait loop, dt ms after the previous one: the button
\* is sampled as pin; released ends the function, held past the threshold
\* shows the config message and opens the portal, otherwise the loop goes on.
checkConfigButton_hold(pin, dt) ==
  /\ At("checkConfigButton_hold")
  /\ clock' = clock + dt
  /\ configPin' = pin
  /\ IF pin = "HIGH"
     THEN Return /\ pressStart' = 0 /\ UNCHANGED screen
     ELSE IF HeldLong(clock', pressStart)
     THEN /\ Continue(<<"startConfigPortal">>)
          /\ screen' = Show("message", "Config Mode")
          /\ UNCHANGED pressStart
     ELSE UNCHANGED <<pc, pressStart, screen>>
  /\ UNCHANGED <<http, fetchOk, modeVars, timerVars, oledVars, animVars,
                 gridVars, cityVars, now, apiKey, wifiOk, scanVars, flashVars,
                 reconnecting, tickVars>>

\* after the portal: if (strlen(apiKey) > 0) { fetchUserData(); initCurrentMode(); }
Refetch_Always(key) == <<"fetchUserData", "initCurrentMode">>

Refetch_PollOnly(key) == IF Len(key) > 0 THEN <<"fetchUserData">> ELSE <<>>

Refetch(key) == IF Len(key) > 0 THEN <<"fetchUserData", "initCurrentMode">> ELSE <<>>

\* the portal is left after t ms: saved, or closed by its timeout
PortalReturns_Never(t) == FALSE

PortalReturns(t) == t <= PortalTimeout * 1000

\* wm.startConfigPortal("ESP32-Setup") blocks for t ms until the form is
\* saved (entered is its key field) or it times out (entered empty); then
\* the refetch, and the break out of the hold-wait loop
startConfigPortal(entered, t) ==
  /\ At("startConfigPortal")
  /\ PortalReturns(t)
  /\ clock' = clock + t
  /\ apiKey' = saveConfigCallback(apiKey, entered)
  /\ eeprom' = saveConfigCallback(eeprom, entered)
  /\ pressStart' = 0
  /\ Continue(Refetch(apiKey'))
  /\ UNCHANGED <<http, fetchOk, screen, modeVars, timerVars, oledVars, animVars,
                 gridVars, cityVars, now, wifiOk, scanVars, configPin, wifiSaved,
                 reconnecting, tickVars>>

\* loop() resumes after checkConfigButton() with the 'now' it read before
LoopChecked(w) ==
  /\ At("loop_checks")
  /\ LoopChecks(w, now)
  /\ UNCHANGED <<http, fetchOk, modeVars, timerVars, oledVars, animVars,
                 gridVars, cityVars, clock, now, apiKey, scanVars, configPin,
                 pressStart, flashVars, tickVars>>

\* lastModeCheck = now
LoopPolled ==
  /\ At("loop_polled")
  /\ lastModeCheck' = now
  /\ Continue(<<"loop_modechange">>)
  /\ UNCHANGED <<http, fetchOk, screen, modeVars, lastOledFetch, lastCanvasFetch,
                 lastImagePixelFetch, lastWeatherSettingsFetch, lastWeatherFetch,
                 oledVars, animVars, gridVars, cityVars, envVars, scanVars,
                 boardVars, tickVars>>

\* if (currentMode != lastMode) { initCurrentMode(); lastMode = currentMode; }
LoopModeChange ==
  /\ At("loop_modechange")
  /\ IF ModeChanged(currentMode, lastMode)
     THEN Continue(<<"initCurrentMode", "loop_setlast">>)
     ELSE Continue(<<"loop_run">>)
  /\ UNCHANGED <<http, fetchOk, screen, modeVars, timerVars, oledVars, animVars,
                 gridVars, cityVars, envVars, scanVars,
                 boardVars, tickVars>>

LoopSetLast ==
  /\ At("loop_setlast")
  /\ lastMode' = currentMode
  /\ Continue(<<"loop_run">>)
  /\ UNCHANGED <<http, fetchOk, screen, userId, currentMode, dataLoaded, enteredMode,
                 timerVars, oledVars, animVars, gridVars, cityVars, envVars,
                 scanVars,
                 boardVars, tickVars>>

\* the if / else-if chain that runs the current mode
LoopRun ==
  /\ At("loop_run")
  /\ IF IsUnset(currentMode) \/ LoopOf(currentMode) = "showWelcomeScreen"
     THEN screen' = Show("welcome", "") /\ Continue(<<"delay_100">>)
     ELSE UNCHANGED screen /\ Continue(<<LoopOf(currentMode)>>)
  /\ UNCHANGED <<http, fetchOk, modeVars, timerVars, oledVars, animVars,
                 gridVars, cityVars, envVars, scanVars,
                 boardVars, tickVars>>

-----------------------------------------------------------------------------
(* fetchUserData() and initCurrentMode() *)

\* httpCode == HTTP_CODE_OK and no DeserializationError
UserDataAccepted_IgnoreError(r) == r.code = HTTP_CODE_OK

UserDataAccepted(r) == r.code = HTTP_CODE_OK /\ r.parsed

fetchUserData(r) ==
  /\ At("fetchUserData")
  /\ http' = r
  /\ IF UserDataAccepted(r)
     THEN /\ userId' = AsName(r.doc, "userId")
          /\ currentMode' = AsName(r.doc, "activeSketch")
          /\ fetchOk' = TRUE
     ELSE /\ UNCHANGED <<userId, currentMode>>
          /\ fetchOk' = FALSE
  /\ enteredMode' = IF currentMode' # currentMode THEN "-" ELSE enteredMode
  /\ Return
  /\ UNCHANGED <<screen, lastMode, dataLoaded, timerVars, oledVars, animVars,
                 gridVars, cityVars, envVars, scanVars,
                 boardVars, tickVars>>

\* the fetches initCurrentMode() issues for mode m, in order
EntryFetches_None(m) == <<>>

EntryFetches(m) ==
  CASE m = "oled" -> <<"fetchOledSettings">>
    [] m = "pixel-paint" -> <<"fetchCanvas">>
    [] m = "image-to-pixel" -> <<"fetchImagePixel">>
    [] m = "weather" -> <<"fetchWeatherSettings", "init_weather">>
    [] OTHER -> <<>>

initCurrentMode ==
  /\ At("initCurrentMode")
  /\ dataLoaded' = FALSE
  /\ enteredMode' = currentMode
  /\ pixelPaintHasData' = IF currentMode = "pixel-paint" THEN FALSE ELSE pixelPaintHasData
  /\ imagePixelHasData' = IF currentMode = "image-to-pixel" THEN FALSE ELSE imagePixelHasData
  /\ weatherDataLoaded' = IF currentMode = "weather" THEN FALSE ELSE weatherDataLoaded
  /\ screen' = IF ~IsUnset(currentMode) /\ currentMode \in KnownModes
               THEN Show("message", currentMode) ELSE screen
  /\ IF IsUnset(currentMode) THEN Return
     ELSE Continue(EntryFetches(currentMode) \o <<"delay_500">>)
  /\ UNCHANGED <<http, fetchOk, userId, currentMode, lastMode, timerVars,
                 oledVars, animVars, canvas, imagePixelCanvas, cities,
                 currentCity, lastCity, tzCity, envVars, scanVars,
                 boardVars, tickVars>>

\* currentCity >= 0
HasCity_Always(c) == TRUE

HasCity(c) == c >= 0

\* if (currentCity >= 0) { applyTimezone(); fetchWeather(); }
InitWeather ==
  /\ At("init_weather")
  /\ IF HasCity(currentCity)
     THEN tzCity' = currentCity /\ Continue(<<"fetchWeather">>)
     ELSE UNCHANGED tzCity /\ Return
  /\ UNCHANGED <<http, fetchOk, screen, modeVars, timerVars, oledVars, animVars,
                 gridVars, cities, currentCity, lastCity, weatherDataLoaded,
                 envVars, scanVars, boardVars, tickVars>>

-----------------------------------------------------------------------------
(* Text mode *)

OledAccepted_Always(r) == TRUE

OledAccepted(r) == r.code = HTTP_CODE_OK /\ r.parsed

fetchOledSettings(r) ==
  /\ At("fetchOledSettings")
  /\ http' = r
  /\ IF OledAccepted(r)
     THEN /\ displayMessage' = AsString(r.doc, "message")
          /\ currentAnimation' = AsNumber(r.doc, "animation")
     ELSE UNCHANGED oledVars
  /\ Return
  /\ UNCHANGED <<fetchOk, screen, modeVars, timerVars, animVars, gridVars,
                 cityVars, envVars, scanVars,
                 boardVars, tickVars>>

\* now - lastXxxFetch > XXX_INTERVAL
FetchDue_Deadline(n, last, interval) == GtU32(n, Add32(last, interval))

FetchDue(n, last, interval) == GtU32(Sub32(n, last), interval)

\* a call fetchXxx(); in loopXxx(): the call returns before the statements
\* after it run
FetchThen_Async(f, rest) == rest \o <<f>>

FetchThen(f, rest) == <<f>> \o rest

loopOLED ==
  /\ At("loopOLED")
  /\ now' = clock
  /\ IF FetchDue(now', lastOledFetch, OLED_FETCH_INTERVAL)
     THEN Continue(FetchThen("fetchOledSettings", <<"loopOLED_fetched">>) \o <<"delay_10">>)
     ELSE Continue(<<"loopOLED_draw", "delay_10">>)
  /\ UNCHANGED <<http, fetchOk, screen, modeVars, timerVars, oledVars, animVars,
                 gridVars, cityVars, clock, apiKey, wifiOk, scanVars,
                 boardVars, tickVars>>

loopOLED_fetched ==
  /\ At("loopOLED_fetched")
  /\ lastOledFetch' = now
  /\ Continue(<<"loopOLED_draw">>)
  /\ UNCHANGED <<http, fetchOk, screen, modeVars, lastModeCheck, lastCanvasFetch,
                 lastImagePixelFetch, lastWeatherSettingsFetch, lastWeatherFetch,
                 oledVars, animVars, gridVars, cityVars, envVars, scanVars,
                 boardVars, tickVars>>

Perimeter == 2 * (SCREEN_WIDTH + SCREEN_HEIGHT)

\* drawBorderPixel(pos, thickness): the pixels it sets, for a position on the
\* top, right, bottom or left edge
drawBorderPixel_RightEdgeOff(pos, thickness) ==
  LET p == pos % Perimeter
      T == 0..(thickness - 1)
  IN  IF p < SCREEN_WIDTH
      THEN {<<p, t>> : t \in T}
      ELSE IF p < SCREEN_WIDTH + SCREEN_HEIGHT
      THEN {<<SCREEN_WIDTH - t, p - SCREEN_WIDTH>> : t \in T}
      ELSE IF p < 2 * SCREEN_WIDTH + SCREEN_HEIGHT
      THEN {<<SCREEN_WIDTH - 1 - (p - SCREEN_WIDTH - SCREEN_HEIGHT),
              SCREEN_HEIGHT - 1 - t>> : t \in T}
      ELSE {<<t, SCREEN_HEIGHT - 1 - (p - 2 * SCREEN_WIDTH - SCREEN_HEIGHT)>> :
              t \in T}

drawBorderPixel(pos, thickness) ==
  LET p == pos % Perimeter
      T == 0..(thickness - 1)
  IN  IF p < SCREEN_WIDTH
      THEN {<<p, t>> : t \in T}
      ELSE IF p < SCREEN_WIDTH + SCREEN_HEIGHT
      THEN {<<SCREEN_WIDTH - 1 - t, p - SCREEN_WIDTH>> : t \in T}
      ELSE IF p < 2 * SCREEN_WIDTH + SCREEN_HEIGHT
      THEN {<<SCREEN_WIDTH - 1 - (p - SCREEN_WIDTH - SCREEN_HEIGHT),
              SCREEN_HEIGHT - 1 - t>> : t \in T}
      ELSE {<<t, SCREEN_HEIGHT - 1 - (p - 2 * SCREEN_WIDTH - SCREEN_HEIGHT)>> :
              t \in T}

\* the pixels drawBorderChase() sets at position a: segmentLength = 30
\* positions, thickness 3
ChasePixels(a) ==
  UNION {drawBorderPixel((a + i) % Perimeter, 3) : i \in 0..29}

\* the rows drawScanLine() draws at position s
ScanRows(s) == {(s + i) % SCREEN_HEIGHT : i \in 0..2}

drawBorderChase ==
  /\ animationPos' = (animationPos + 4) % Perimeter
  /\ UNCHANGED <<pulseState, pulseDirection, cornerAngle, scanPos, breatheSize,
                 breatheDir,
                 boardVars, tickVars>>

\* counter >= top || counter <= 0, the test that reverses a ping-pong counter
AtBound_UpperOnly(counter, top) == counter >= top

AtBound_Overshoot(counter, top) == counter > top \/ counter < 0

AtBound(counter, top) == counter >= top \/ counter <= 0

drawPulseBorder ==
  /\ pulseState' = pulseState + pulseDirection * 2
  /\ pulseDirection' = IF AtBound(pulseState', 40)
                       THEN pulseDirection * (-1) ELSE pulseDirection
  /\ UNCHANGED <<animationPos, cornerAngle, scanPos, breatheSize, breatheDir,
                 boardVars, tickVars>>

drawCornerSpin_AlsoScan ==
  /\ cornerAngle' = (cornerAngle + 3) % 80
  /\ scanPos' = (scanPos + 2) % SCREEN_HEIGHT
  /\ UNCHANGED <<animationPos, pulseState, pulseDirection, breatheSize,
                 breatheDir, boardVars, tickVars>>

drawCornerSpin ==
  /\ cornerAngle' = (cornerAngle + 3) % 80
  /\ UNCHANGED <<animationPos, pulseState, pulseDirection, scanPos, breatheSize,
                 breatheDir,
                 boardVars, tickVars>>

drawScanLine ==
  /\ scanPos' = (scanPos + 2) % SCREEN_HEIGHT
  /\ UNCHANGED <<animationPos, pulseState, pulseDirection, cornerAngle,
                 breatheSize, breatheDir,
                 boardVars, tickVars>>

drawBreathingBox ==
  /\ breatheSize' = breatheSize + breatheDir
  /\ breatheDir' = IF AtBound(breatheSize', 30)
                   THEN breatheDir * (-1) ELSE breatheDir
  /\ UNCHANGED <<animationPos, pulseState, pulseDirection, cornerAngle, scanPos,
                 boardVars, tickVars>>

\* the frame of loopOLED(): the selected effect, then drawMessage()
loopOLED_draw ==
  /\ At("loopOLED_draw")
  /\ CASE currentAnimation = 1 -> drawBorderChase
       [] currentAnimation = 2 -> drawPulseBorder
       [] currentAnimation = 3 -> drawCornerSpin
       [] currentAnimation = 4 -> drawScanLine
       [] currentAnimation = 5 -> drawBreathingBox
       [] OTHER -> UNCHANGED animVars
  /\ screen' = Show("text", [msg |-> displayMessage, anim |-> currentAnimation])
  /\ Return
  /\ UNCHANGED <<http, fetchOk, modeVars, timerVars, oledVars, gridVars,
                 cityVars, envVars, scanVars,
                 boardVars, tickVars>>

-----------------------------------------------------------------------------
(* Pixel paint and image-to-pixel modes *)

CanvasAccepted(r) == r.code = HTTP_CODE_OK /\ r.parsed

fetchCanvas(r) ==
  /\ At("fetchCanvas")
  /\ http' = r
  /\ IF CanvasAccepted(r)
     THEN /\ pixelPaintHasData' = (Len(AsString(r.doc, "canvas")) > 0)
          /\ canvas' = parseCanvasData(AsString(r.doc, "canvas"), canvas)
     ELSE UNCHANGED <<pixelPaintHasData, canvas>>
  /\ Return
  /\ UNCHANGED <<fetchOk, screen, modeVars, timerVars, oledVars, animVars,
                 imagePixelCanvas, imagePixelHasData, cityVars, envVars, scanVars,
                 boardVars, tickVars>>

loopPixelPaint ==
  /\ At("loopPixelPaint")
  /\ now' = clock
  /\ IF FetchDue(now', lastCanvasFetch, CANVAS_FETCH_INTERVAL)
     THEN Continue(FetchThen("fetchCanvas", <<"loopPixelPaint_fetched">>) \o <<"delay_50">>)
     ELSE Continue(<<"loopPixelPaint_draw", "delay_50">>)
  /\ UNCHANGED <<http, fetchOk, screen, modeVars, timerVars, oledVars, animVars,
                 gridVars, cityVars, clock, apiKey, wifiOk, scanVars,
                 boardVars, tickVars>>

loopPixelPaint_fetched ==
  /\ At("loopPixelPaint_fetched")
  /\ lastCanvasFetch' = now
  /\ Continue(<<"loopPixelPaint_draw">>)
  /\ UNCHANGED <<http, fetchOk, screen, modeVars, lastModeCheck, lastOledFetch,
                 lastImagePixelFetch, lastWeatherSettingsFetch, lastWeatherFetch,
                 oledVars, animVars, gridVars, cityVars, envVars, scanVars,
                 boardVars, tickVars>>

\* drawCanvasToOLED(canvas)
loopPixelPaint_draw ==
  /\ At("loopPixelPaint_draw")
  /\ screen' = Show("canvas", canvas)
  /\ Return
  /\ UNCHANGED <<http, fetchOk, modeVars, timerVars, oledVars, animVars,
                 gridVars, cityVars, envVars, scanVars,
                 boardVars, tickVars>>

ImageAccepted(r) == r.code = HTTP_CODE_OK /\ r.parsed

\* what loopImageToPixel() and fetchImagePixel() put on the display
ImageFrame(hasData, grid) ==
  IF ~hasData THEN Show("default", "image-to-pixel") ELSE Show("canvas", grid)

fetchImagePixel(r) ==
  /\ At("fetchImagePixel")
  /\ http' = r
  /\ IF ImageAccepted(r)
     THEN /\ imagePixelHasData' = (Len(AsString(r.doc, "canvas")) > 0)
          /\ imagePixelCanvas' = parseCanvasData(AsString(r.doc, "canvas"),
                                                 imagePixelCanvas)
          /\ screen' = ImageFrame(imagePixelHasData', imagePixelCanvas')
     ELSE UNCHANGED <<imagePixelHasData, imagePixelCanvas, screen>>
  /\ Return
  /\ UNCHANGED <<fetchOk, modeVars, timerVars, oledVars, animVars, canvas,
                 pixelPaintHasData, cityVars, envVars, scanVars,
                 boardVars, tickVars>>

loopImageToPixel ==
  /\ At("loopImageToPixel")
  /\ now' = clock
  /\ IF FetchDue(now', lastImagePixelFetch, IMAGE_PIXEL_FETCH_INTERVAL)
     THEN Continue(FetchThen("fetchImagePixel", <<"loopImageToPixel_fetched">>) \o <<"delay_50">>)
     ELSE Continue(<<"loopImageToPixel_draw", "delay_50">>)
  /\ UNCHANGED <<http, fetchOk, screen, modeVars, timerVars, oledVars, animVars,
                 gridVars, cityVars, clock, apiKey, wifiOk, scanVars,
                 boardVars, tickVars>>

loopImageToPixel_fetched ==
  /\ At("loopImageToPixel_fetched")
  /\ lastImagePixelFetch' = now
  /\ Continue(<<"loopImageToPixel_draw">>)
  /\ UNCHANGED <<http, fetchOk, screen, modeVars, lastModeCheck, lastOledFetch,
                 lastCanvasFetch, lastWeatherSettingsFetch, lastWeatherFetch,
                 oledVars, animVars, gridVars, cityVars, envVars, scanVars,
                 boardVars, tickVars>>

loopImageToPixel_draw ==
  /\ At("loopImageToPixel_draw")
  /\ screen' = ImageFrame(imagePixelHasData, imagePixelCanvas)
  /\ Return
  /\ UNCHANGED <<http, fetchOk, modeVars, timerVars, oledVars, animVars,
                 gridVars, cityVars, envVars, scanVars,
                 boardVars, tickVars>>

-----------------------------------------------------------------------------
(* Weather mode *)

WeatherSettingsAccepted(r) == r.code = HTTP_CODE_OK /\ r.parsed

\* doc.containsKey("selectedCity") && !doc["selectedCity"].isNull()
HasSelection_Always(doc) == TRUE

HasSelection(doc) == "selectedCity" \in DOMAIN doc

\* newCity >= 0 && newCity < NUM_CITIES
CityInRange_Inclusive(c) == c >= 0 /\ c <= NUM_CITIES

CityInRange(c) == c >= 0 /\ c < NUM_CITIES

fetchWeatherSettings(r) ==
  /\ At("fetchWeatherSettings")
  /\ http' = r
  /\ IF WeatherSettingsAccepted(r)
     THEN IF HasSelection(r.doc)
          THEN LET newCity == AsNumber(r.doc, "selectedCity")
               IN  IF CityInRange(newCity) /\ newCity # currentCity
                   THEN currentCity' = newCity /\ weatherDataLoaded' = FALSE
                   ELSE UNCHANGED <<currentCity, weatherDataLoaded>>
          ELSE currentCity' = -1 /\ UNCHANGED weatherDataLoaded
     ELSE UNCHANGED <<currentCity, weatherDataLoaded>>
  /\ Return
  /\ UNCHANGED <<fetchOk, screen, modeVars, timerVars, oledVars, animVars,
                 gridVars, cities, lastCity, tzCity, envVars, scanVars,
                 boardVars, tickVars>>

WeatherAccepted(r) == r.code = HTTP_CODE_OK /\ r.parsed

fetchWeather(r) ==
  /\ At("fetchWeather")
  /\ IF apiKey = <<>>
     THEN UNCHANGED <<http, cities>>
     ELSE /\ http' = r
          /\ IF WeatherAccepted(r)
             THEN cities' = [cities EXCEPT ![currentCity] =
                               [temp |-> AsNumber(r.doc, "temp"),
                                humidity |-> AsNumber(r.doc, "humidity")]]
             ELSE UNCHANGED cities
  /\ Return
  /\ UNCHANGED <<fetchOk, screen, modeVars, timerVars, oledVars, animVars,
                 gridVars, currentCity, lastCity, weatherDataLoaded, tzCity,
                 envVars, scanVars, boardVars, tickVars>>

loopWeather ==
  /\ At("loopWeather")
  /\ now' = clock
  /\ IF FetchDue(now', lastWeatherSettingsFetch, WEATHER_SETTINGS_INTERVAL)
     THEN Continue(FetchThen("fetchWeatherSettings", <<"loopWeather_settings">>)
                     \o <<"delay_100">>)
     ELSE Continue(<<"loopWeather_city", "delay_100">>)
  /\ UNCHANGED <<http, fetchOk, screen, modeVars, timerVars, oledVars, animVars,
                 gridVars, cityVars, clock, apiKey, wifiOk, scanVars,
                 boardVars, tickVars>>

loopWeather_settings ==
  /\ At("loopWeather_settings")
  /\ lastWeatherSettingsFetch' = now
  /\ Continue(<<"loopWeather_city">>)
  /\ UNCHANGED <<http, fetchOk, screen, modeVars, lastModeCheck, lastOledFetch,
                 lastCanvasFetch, lastImagePixelFetch, lastWeatherFetch,
                 oledVars, animVars, gridVars, cityVars, envVars, scanVars,
                 boardVars, tickVars>>

\* currentCity < 0
NoCity_Never(c) == FALSE

NoCity(c) == c < 0

\* the placeholder when no city is chosen, else the weather refresh when due
loopWeather_city ==
  /\ At("loopWeather_city")
  /\ IF NoCity(currentCity)
     THEN /\ screen' = Show("default", "no-location")
          /\ Return
          /\ UNCHANGED <<tzCity, lastCity>>
     ELSE /\ UNCHANGED screen
          /\ IF FetchDue(now, lastWeatherFetch, WEATHER_FETCH_INTERVAL)
                \/ currentCity # lastCity
             THEN /\ tzCity' = IF currentCity # lastCity THEN currentCity ELSE tzCity
                  /\ lastCity' = currentCity
                  /\ Continue(FetchThen("fetchWeather", <<"loopWeather_fetched">>))
             ELSE /\ UNCHANGED <<tzCity, lastCity>>
                  /\ Continue(<<"loopWeather_draw">>)
  /\ UNCHANGED <<http, fetchOk, modeVars, timerVars, oledVars, animVars,
                 gridVars, cities, currentCity, weatherDataLoaded, envVars,
                 scanVars,
                 boardVars, tickVars>>

loopWeather_fetched ==
  /\ At("loopWeather_fetched")
  /\ weatherDataLoaded' = TRUE
  /\ lastWeatherFetch' = now
  /\ Continue(<<"loopWeather_draw">>)
  /\ UNCHANGED <<http, fetchOk, screen, modeVars, lastModeCheck, lastOledFetch,
                 lastCanvasFetch, lastImagePixelFetch, lastWeatherSettingsFetch,
                 oledVars, animVars, gridVars, cities, currentCity, lastCity,
                 tzCity, envVars, scanVars,
                 boardVars, tickVars>>

\* if (hour == 0) hour = 12; if (hour > 12) hour -= 12;
Hour12_NoMidnight(hour) == IF hour > 12 THEN hour - 12 ELSE hour

Hour12(hour) ==
  LET h1 == IF hour = 0 THEN 12 ELSE hour
  IN  IF h1 > 12 THEN h1 - 12 ELSE h1

\* bool pm = hour >= 12
IsPm(hour) == hour >= 12

\* sprintf "%02d" of a number in 0..99
Pad2(n) == <<Digits[(n \div 10) + 1], Digits[(n % 10) + 1]>>

\* sprintf(timeStr, "%02d:%02d:%02d %s", hour, t.tm_min, t.tm_sec, pm ? "PM" : "AM")
TimeStr(t) ==
  Pad2(Hour12(t.hour)) \o <<":">> \o Pad2(t.min) \o <<":">> \o Pad2(t.sec)
    \o <<" ">> \o (IF IsPm(t.hour) THEN <<"P", "M">> ELSE <<"A", "M">>)

\* drawWeatherOLED(): getLocalTime(&t) fails (timeKnown false) and nothing
\* is drawn, or fills in the local time t and the frame is sent: the clock
\* line, the temperature and humidity of cities[currentCity], its name
loopWeather_draw(timeKnown, t) ==
  /\ At("loopWeather_draw")
  /\ screen' = IF timeKnown
               THEN Show("weather", [city |-> currentCity, tz |-> tzCity,
                                     temp |-> cities[currentCity].temp,
                                     humidity |-> cities[currentCity].humidity,
                                     tm |-> t, timeStr |-> TimeStr(t)])
               ELSE screen
  /\ Return
  /\ UNCHANGED <<http, fetchOk, modeVars, timerVars, oledVars, animVars,
                 gridVars, cityVars, envVars, scanVars,
                 boardVars, tickVars>>

-----------------------------------------------------------------------------
(* The sketch: setup() once, then loop() for ever *)

Next ==
  \/ Setup
  \/ setupWiFiManager
  \/ \E ok \in BOOLEAN, entered \in SetupKeys, t \in ConnectTimes :
       autoConnect(ok, entered, t)
  \/ restart
  \/ SetupSync
  \/ SetupSynced
  \/ \E d \in ElapsedLoop, w \in BOOLEAN : LoopEnter(d, w)
  \/ \E d \in ElapsedLoop : LoopPressed(d)
  \/ checkConfigButton_pressStart
  \/ \E pin \in PinLevels, dt \in HoldTimes : checkConfigButton_hold(pin, dt)
  \/ \E entered \in PortalKeys, t \in PortalTimes : startConfigPortal(entered, t)
  \/ \E w \in BOOLEAN : LoopChecked(w)
  \/ LoopPolled
  \/ LoopModeChange
  \/ LoopSetLast
  \/ LoopRun
  \/ \E r \in UserDataResponses : fetchUserData(r)
  \/ initCurrentMode
  \/ \E label \in DelayLabels : delay(label)
  \/ InitWeather
  \/ \E r \in OledResponses : fetchOledSettings(r)
  \/ loopOLED
  \/ loopOLED_fetched
  \/ loopOLED_draw
  \/ \E r \in CanvasResponses : fetchCanvas(r)
  \/ loopPixelPaint
  \/ loopPixelPaint_fetched
  \/ loopPixelPaint_draw
  \/ \E r \in CanvasResponses : fetchImagePixel(r)
  \/ loopImageToPixel
  \/ loopImageToPixel_fetched
  \/ loopImageToPixel_draw
  \/ \E r \in WeatherSettingsResponses : fetchWeatherSettings(r)
  \/ \E r \in WeatherResponses : fetchWeather(r)
  \/ loopWeather
  \/ loopWeather_settings
  \/ loopWeather_city
  \/ loopWeather_fetched
  \/ \E k \in BOOLEAN, t \in FrameTimes : loopWeather_draw(k, t)

Spec == Init /\ [][Next]_vars

-----------------------------------------------------------------------------
(* The codec on its own: parseCanvasData run one loop iteration at a time,   *)
(* first into canvas and then, with the same string, into imagePixelCanvas, *)
(* each grid holding what an earlier decode left in it.                     *)

Alphabet == {"2", "9", ",", ";", "-"}

RawInputs == UNION {[1..n -> Alphabet] : n \in 0..MaxLen}

PairTokens == {<<"2", ",", "3">>, <<"5", ",", "5">>, <<"9", "5", ",", "4", "7">>, <<"9", "6", ",", "0">>, <<"0", ",", "4", "8">>}

RECURSIVE JoinPairs(_)
JoinPairs(toks) ==
  IF Len(toks) = 0 THEN <<>>
  ELSE IF Len(toks) = 1 THEN toks[1]
  ELSE toks[1] \o <<";">> \o JoinPairs(Tail(toks))

PairInputs ==
  LET lists == UNION {[1..n -> PairTokens] : n \in 1..MaxPairs}
  IN  {JoinPairs(l) : l \in lists} \cup {JoinPairs(l) \o <<";">> : l \in lists}

DecodeInputs == RawInputs \cup PairInputs

Grid(t) == IF t = "canvas" THEN canvas ELSE imagePixelCanvas

InitDecode ==
  /\ ticks = 0
  /\ pc = <<"parseCanvasData">>
  /\ wifiSaved = FALSE
  /\ eeprom = <<>>
  /\ canvas = {<<2, 3>>, <<5, 5>>}
  /\ imagePixelCanvas \in {{}, {<<1, 1>>}}
  /\ Globals

\* entry of parseCanvasData(d, t): the memset and the empty-string return
ParseStart(d, t) ==
  /\ canvasData' = d
  /\ target' = t
  /\ scanI' = 0
  /\ IF t = "canvas"
     THEN canvas' = ClearGrid(canvas) /\ UNCHANGED imagePixelCanvas
     ELSE imagePixelCanvas' = ClearGrid(imagePixelCanvas) /\ UNCHANGED canvas
  /\ pc' = IF Len(d) = 0 THEN <<"parse_done">> ELSE <<"parse_scan">>
  /\ UNCHANGED <<http, fetchOk, screen, modeVars, timerVars, oledVars, animVars,
                 pixelPaintHasData, imagePixelHasData, cityVars, envVars,
                 textVars,
                 boardVars, tickVars>>

\* parseCanvasData(d, canvas)
ParseEnter(d) == At("parseCanvasData") /\ ParseStart(d, "canvas")

\* then parseCanvasData(canvasData, imagePixelCanvas) with the same string
ParseAgain ==
  /\ At("parse_done")
  /\ target = "canvas"
  /\ ParseStart(canvasData, "imagePixelCanvas")

\* one iteration of while (i < canvasData.length())
ParseScan ==
  /\ At("parse_scan")
  /\ LET r == ScanIter(canvasData, scanI, Grid(target))
     IN  /\ IF target = "canvas"
            THEN canvas' = r.grid /\ UNCHANGED imagePixelCanvas
            ELSE imagePixelCanvas' = r.grid /\ UNCHANGED canvas
         /\ scanI' = r.i
         /\ pc' = IF r.more THEN <<"parse_scan">> ELSE <<"parse_done">>
  /\ UNCHANGED <<http, fetchOk, screen, modeVars, timerVars, oledVars, animVars,
                 pixelPaintHasData, imagePixelHasData, cityVars, envVars,
                 canvasData, target, textVars,
                 boardVars, tickVars>>

NextDecode ==
  \/ \E d \in DecodeInputs : ParseEnter(d)
  \/ ParseScan
  \/ ParseAgain

SpecDecode == InitDecode /\ [][NextDecode]_vars

-----------------------------------------------------------------------------
(* What a canvas string denotes, read off the grammar "x,y;x,y;..." *)

RefRange(s) == {s[k] : k \in 1..Len(s)}

RECURSIVE RefSplit(_, _)
RefSplit(s, ch) ==
  IF ch \notin RefRange(s) THEN <<s>>
  ELSE LET k == CHOOSE j \in 1..Len(s) :
                  s[j] = ch /\ \A m \in 1..(j - 1) : s[m] # ch
       IN  <<SubSeq(s, 1, k - 1)>> \o RefSplit(SubSeq(s, k + 1, Len(s)), ch)

\* the tokens between the ';', without the empty one after a trailing ';'
RefTokens(s) ==
  LET toks == RefSplit(s, ";")
  IN  IF toks[Len(toks)] = <<>> THEN SubSeq(toks, 1, Len(toks) - 1) ELSE toks

RefIsNumber(w) ==
  LET ds == IF Len(w) > 0 /\ w[1] = "-" THEN Tail(w) ELSE w
  IN  Len(ds) > 0 /\ \A k \in 1..Len(ds) : IsDigit(ds[k])

RECURSIVE RefDigitsValue(_)
RefDigitsValue(ds) ==
  IF Len(ds) = 0 THEN 0
  ELSE RefDigitsValue(SubSeq(ds, 1, Len(ds) - 1)) * 10 + DigitVal(ds[Len(ds)])

RefValue(w) ==
  IF w[1] = "-" THEN 0 - RefDigitsValue(Tail(w)) ELSE RefDigitsValue(w)

RefIsPair(tok) ==
  LET parts == RefSplit(tok, ",")
  IN  Len(parts) = 2 /\ RefIsNumber(parts[1]) /\ RefIsNumber(parts[2])

RefWellFormed(s) == \A k \in 1..Len(RefTokens(s)) : RefIsPair(RefTokens(s)[k])

RefPair(tok) ==
  LET parts == RefSplit(tok, ",") IN <<RefValue(parts[1]), RefValue(parts[2])>>

\* the pairs of a well-formed string that lie on the grid
RefCells(s) ==
  {p \in {RefPair(RefTokens(s)[k]) : k \in 1..Len(RefTokens(s))} :
     p[1] \in 0..(GRID_W - 1) /\ p[2] \in 0..(GRID_H - 1)}

RECURSIVE RefReverse(_)
RefReverse(toks) ==
  IF Len(toks) = 0 THEN <<>> ELSE RefReverse(Tail(toks)) \o <<toks[1]>>

\* the same pairs written differently: reordered, one repeated, and each of
\* these with and without the trailing ';'
RefRewritings(s) ==
  LET toks  == RefTokens(s)
      lists == {toks, RefReverse(toks), toks \o <<toks[1]>>, <<toks[1]>> \o toks}
  IN  {JoinPairs(l) : l \in lists} \cup {JoinPairs(l) \o <<";">> : l \in lists}

Decoded == At("parse_done")

-----------------------------------------------------------------------------
(* Claims about the codec *)

\* C6: parseCanvasData never sets a cell outside [0,96) x [0,48), whatever the
\* input: out-of-range, negative and malformed tokens are dropped.
C6_DecodeStaysOnGrid ==
  \A cell \in canvas \cup imagePixelCanvas :
    /\ cell[1] \in 0..(GRID_W - 1)
    /\ cell[2] \in 0..(GRID_H - 1)

C6_Witness ==
  /\ Decoded
  /\ canvasData = <<"9", "6", ",", "0", ";", "2", ",", "3">>
  /\ canvas = {<<2, 3>>}

\* C7: for a string of well-formed decimal pairs the decoded grid holds exactly
\* the pairs of the string that lie on the grid.
C7_DecodeExact ==
  (Decoded /\ RefWellFormed(canvasData)) => Grid(target) = RefCells(canvasData)

C7_Witness ==
  /\ Decoded
  /\ target = "canvas"
  /\ canvasData = Data_Two
  /\ canvas = {<<2, 3>>, <<5, 5>>}

\* C8: the decode replaces the grid: decoding one string into two grids with
\* different earlier contents leaves both grids equal, and the empty string
\* leaves a grid all false.
C8_DecodeReplaces ==
  /\ (Decoded /\ target = "imagePixelCanvas") => canvas = imagePixelCanvas
  /\ (Decoded /\ canvasData = <<>>) => Grid(target) = {}

C8_Witness ==
  /\ Decoded
  /\ target = "imagePixelCanvas"
  /\ canvasData = <<"5", ",", "5">>
  /\ canvas = {<<5, 5>>}
  /\ imagePixelCanvas = {<<5, 5>>}

\* C9: for well-formed strings the decoded grid is the same however the pairs
\* are written: reordered, with a pair repeated, with or without the
\* trailing ';'.
C9_DecodeOrderFree ==
  (Decoded /\ RefWellFormed(canvasData) /\ canvasData # <<>>) =>
    \A other \in RefRewritings(canvasData) :
      parseCanvasData(other, {}) = Grid(target)

C9_Witness ==
  /\ Decoded
  /\ target = "canvas"
  /\ canvasData = <<"5", ",", "5", ";", "2", ",", "3">>
  /\ canvas = {<<2, 3>>, <<5, 5>>}

\* C10: the scan loop terminates: whenever the loop is about to run an
\* iteration the scan index is inside the string, and the iteration either
\* leaves the loop or moves the index strictly forward, so the distance to the
\* end of the string decreases on every iteration.
C10_DecodeTerminates ==
  At("parse_scan") =>
    /\ scanI >= 0
    /\ scanI < Len(canvasData)
    /\ \A r \in {ScanIter(canvasData, scanI, Grid(target))} :
         r.more => (r.i > scanI /\ r.i <= Len(canvasData))

C10_Witness ==
  /\ At("parse_scan")
  /\ canvasData = <<";", ";", "2", ",">>
  /\ scanI = 2

-----------------------------------------------------------------------------
(* Claims about the mode controller and the remote fetches *)

ModeFetchLabels ==
  {"fetchOledSettings", "fetchCanvas", "fetchImagePixel", "fetchWeatherSettings",
   "fetchWeather"}

SteadyLabels ==
  {"loopOLED", "loopOLED_fetched", "loopOLED_draw",
   "loopPixelPaint", "loopPixelPaint_fetched", "loopPixelPaint_draw",
   "loopImageToPixel", "loopImageToPixel_fetched", "loopImageToPixel_draw",
   "loopWeather", "loopWeather_settings", "loopWeather_city",
   "loopWeather_fetched", "loopWeather_draw"}

\* some loopXxx() of a mode is running, possibly waiting in one of its fetches
InSteadyState == \E k \in 1..Len(pc) : pc[k] \in SteadyLabels

\* the Mode of the data model that a mode string stands for
ModeOf(m) == IF m \in KnownModes THEN m ELSE "unset"

WeatherPoll == Ok(("userId" :> "u1") @@ ("activeSketch" :> "weather"))

\* C1: a mode poll that fails (timeout, non-200 status, unparseable payload)
\* changes none of currentMode, displayMessage, currentAnimation, the two
\* canvases and currentCity, and currentMode changes in no other step than a
\* mode poll whose response was accepted.
C1_FailedPollKeepsState ==
  [][/\ (At("fetchUserData") /\ http' \in Failures)
          => UNCHANGED <<currentMode, displayMessage, currentAnimation, canvas,
                         imagePixelCanvas, currentCity>>
     /\ (currentMode' # currentMode)
          => (At("fetchUserData") /\ http'.code = HTTP_CODE_OK /\ http'.parsed)
    ]_vars

C1_Witness ==
  /\ At("loop_polled")
  /\ http = Garbage
  /\ currentMode = "pixel-paint"
  /\ canvas = {<<2, 3>>, <<5, 5>>}

\* C2: in every fetch operation a 200 response that parses as JSON but lacks
\* the expected field leaves the mode, the message, the animation index, the
\* canvases, the selected city and the cached weather as a timeout would.
C2_MissingFieldKeepsState ==
  [][(pc # <<>> /\ Head(pc) \in ModeFetchLabels \cup {"fetchUserData"}
        /\ http' = Ok(NoDoc))
       => /\ ModeOf(currentMode') = ModeOf(currentMode)
          /\ UNCHANGED <<displayMessage, currentAnimation, canvas,
                         imagePixelCanvas, currentCity, cities>>
    ]_vars

\* C3: a per-mode fetch that times out or returns a non-200 status leaves the
\* cached values untouched, and the frame rendered next in that mode shows the
\* data cached before it: the message, the canvas, the decoded image.
C3_FailedFetchShowsPriorData ==
  [][/\ (pc # <<>> /\ Head(pc) \in ModeFetchLabels /\ http' \in {Timeout, NotFound})
          => UNCHANGED <<displayMessage, currentAnimation, canvas,
                         imagePixelCanvas, currentCity, cities>>
     /\ At("loopOLED_draw")
          => screen' = Show("text", [msg |-> displayMessage,
                                     anim |-> currentAnimation])
     /\ At("loopPixelPaint_draw") => screen' = Show("canvas", canvas)
     /\ (At("loopImageToPixel_draw") /\ http \in {Timeout, NotFound}
           /\ imagePixelCanvas # {})
          => screen' = Show("canvas", imagePixelCanvas)
    ]_vars

\* C4: a mode poll in loop() that returns another known mode is seen as a mode
\* change, the mode change runs initCurrentMode in the same iteration, and
\* initCurrentMode resets the flags of the mode and issues its fetch at once;
\* no loopXxx() runs before that, i.e. unless lastMode = currentMode.
C4_EntryBeforeFrames ==
  [][/\ (At("fetchUserData") /\ Tail(pc) = <<"loop_polled", "loop">>
           /\ currentMode' # currentMode /\ currentMode' \in KnownModes)
          => lastMode # currentMode'
     /\ (At("loop_modechange") /\ currentMode # lastMode)
          => pc' = <<"initCurrentMode", "loop_setlast", "loop">>
     /\ (At("initCurrentMode") /\ currentMode \in KnownModes)
          => /\ dataLoaded' = FALSE
             /\ currentMode = "pixel-paint" => ~pixelPaintHasData'
             /\ currentMode = "image-to-pixel" => ~imagePixelHasData'
             /\ currentMode = "weather" => ~weatherDataLoaded'
             /\ Head(pc') = CASE currentMode = "oled" -> "fetchOledSettings"
                              [] currentMode = "pixel-paint" -> "fetchCanvas"
                              [] currentMode = "image-to-pixel" -> "fetchImagePixel"
                              [] currentMode = "weather" -> "fetchWeatherSettings"
     /\ InSteadyState' => (lastMode' = currentMode' /\ currentMode' \in KnownModes)
    ]_vars

\* C5: a mode string that is none of the four known names is Unset: the
\* iteration renders the welcome screen and ends with its delay(100), and no
\* mode-specific fetch
\* and no loopXxx() runs while the mode is not a known one; the sketch starts
\* with the mode Unset.
C5_UnknownModeIsUnset ==
  /\ currentMode = "" /\ pc = <<"setup">>
  /\ [][/\ (At("loop_run") /\ currentMode \notin KnownModes)
             => (screen' = Show("welcome", "") /\ pc' = <<"delay_100", "loop">>)
        /\ (InSteadyState' \/ (pc' # <<>> /\ Head(pc') \in ModeFetchLabels))
             => currentMode' \in KnownModes
       ]_vars

C5_Witness ==
  /\ pc = <<"loop">>
  /\ currentMode = "clock"
  /\ lastMode = "clock"
  /\ screen = Show("welcome", "")

-----------------------------------------------------------------------------
(* drawMessage(): the text layout of text mode, one segment at a time *)

MAX_CHARS_PER_LINE == 19
MAX_LINES == 5

MaxTokens == 4       \* most tokens a laid-out message is made of

RECURSIVE TrimLeft(_)
TrimLeft(s) ==
  IF Len(s) > 0 /\ IsSpace(s[1]) THEN TrimLeft(Tail(s)) ELSE s

RECURSIVE TrimRight(_)
TrimRight(s) ==
  IF Len(s) > 0 /\ IsSpace(s[Len(s)]) THEN TrimRight(SubSeq(s, 1, Len(s) - 1))
  ELSE s

\* String::trim()
Trim(s) == TrimRight(TrimLeft(s))

\* i == msg.length() || msg[i] == '\n'
IsBreak_EndOnly(msg, i) == i = Len(msg)

IsBreak(msg, i) == i = Len(msg) \/ msg[i + 1] = "\n"

\* the first i >= from at which the for loop finds a segment end
NextBreak(msg, from) ==
  CHOOSE i \in from..Len(msg) :
    IsBreak(msg, i) /\ \A k \in from..(i - 1) : ~IsBreak(msg, k)

\* numLines < MAX_LINES
MoreLines_OffByOne(n, maxLines) == n <= maxLines

MoreLines(n, maxLines) == n < maxLines

\* breakAt: the last j in cols..1 with segment[j] == ' ', else cols
BreakAt_FirstSpace(segment, cols) ==
  LET hits == {j \in 1..cols : segment[j + 1] = " "}
  IN  IF hits = {} THEN cols
      ELSE CHOOSE j \in hits : \A k \in hits : j <= k

BreakAt(segment, cols) ==
  LET hits == {j \in 1..cols : segment[j + 1] = " "}
  IN  IF hits = {} THEN cols
      ELSE CHOOSE j \in hits : \A k \in hits : j >= k

\* the while loop that wraps one segment onto the lines ls
RECURSIVE WrapSegment(_, _, _, _)
WrapSegment(segment, ls, cols, maxLines) ==
  IF ~(Len(segment) > 0 /\ MoreLines(Len(ls), maxLines)) THEN ls
  ELSE IF Len(segment) <= cols THEN Append(ls, segment)
  ELSE LET breakAt == BreakAt(segment, cols)
       IN  WrapSegment(Trim(Substring(segment, breakAt, Len(segment))),
                       Append(ls, Substring(segment, 0, breakAt)),
                       cols, maxLines)

\* the for loop from lineStart on
RECURSIVE LayoutFrom(_, _, _, _, _)
LayoutFrom(msg, start, ls, cols, maxLines) ==
  IF start > Len(msg) \/ ~MoreLines(Len(ls), maxLines) THEN ls
  ELSE LET i == NextBreak(msg, start)
       IN  LayoutFrom(msg, i + 1,
                      WrapSegment(Substring(msg, start, i), ls, cols, maxLines),
                      cols, maxLines)

\* the lines drawMessage would lay msg out in at the given limits
Layout(msg, cols, maxLines) == LayoutFrom(msg, 0, <<>>, cols, maxLines)

\* line.substring(0, MAX_CHARS_PER_LINE) of the print loop
Printed(ls) ==
  [k \in 1..Len(ls) |->
     IF Len(ls[k]) > MAX_CHARS_PER_LINE
     THEN Substring(ls[k], 0, MAX_CHARS_PER_LINE) ELSE ls[k]]

Word_Hello == <<"H", "e", "l", "l", "o">>
Word_Days ==
  <<"w", "o", "n", "d", "e", "r", "f", "u", "l", " ", "d", "a", "y", "s">>
Word_Long ==
  <<"a", "b", "c", "d", "e", "f", "g", "h", "i", "j", "k", "l", "m", "n", "o",
    "p", "q", "r", "s", "t", "u", "v", "w", "x", "y", "z", "A", "B", "C", "D",
    "E", "F", "G", "H", "I", "J", "K", "L", "M", "N">>

TextTokens == {Word_Hello, Word_Days, Word_Long, <<" ">>, <<"\n">>}

RECURSIVE Concat(_)
Concat(toks) == IF Len(toks) = 0 THEN <<>> ELSE toks[1] \o Concat(Tail(toks))

TextInputs ==
  {Concat(l) : l \in UNION {[1..n -> TextTokens] : n \in 0..MaxTokens}}

InitText ==
  /\ ticks = 0
  /\ pc = <<"text_frame">>
  /\ wifiSaved = FALSE
  /\ eeprom = <<>>
  /\ canvas = {}
  /\ imagePixelCanvas = {}
  /\ Globals

\* a stored message m reaches drawMessage() in a frame of loopOLED()
TextFrame(m) ==
  /\ At("text_frame")
  /\ displayMessage' = m
  /\ pc' = <<"drawMessage">>
  /\ UNCHANGED <<http, fetchOk, screen, modeVars, timerVars, currentAnimation,
                 animVars, gridVars, cityVars, envVars, scanVars,
                 boardVars, tickVars>>

drawMessage ==
  /\ At("drawMessage")
  /\ lines' = <<>>
  /\ lineStart' = 0
  /\ Continue(<<"drawMessage_scan">>)
  /\ UNCHANGED <<http, fetchOk, screen, modeVars, timerVars, oledVars, animVars,
                 gridVars, cityVars, envVars, canvasData, target, scanI,
                 boardVars, tickVars>>

\* the for loop up to and including its next segment, or its exit
drawMessage_scan ==
  /\ At("drawMessage_scan")
  /\ IF lineStart <= Len(displayMessage) /\ MoreLines(Len(lines), MAX_LINES)
     THEN LET i == NextBreak(displayMessage, lineStart)
          IN  /\ lines' = WrapSegment(Substring(displayMessage, lineStart, i),
                                      lines, MAX_CHARS_PER_LINE, MAX_LINES)
              /\ lineStart' = i + 1
              /\ UNCHANGED pc
     ELSE /\ UNCHANGED <<lines, lineStart>>
          /\ Continue(<<"drawMessage_print">>)
  /\ UNCHANGED <<http, fetchOk, screen, modeVars, timerVars, oledVars, animVars,
                 gridVars, cityVars, envVars, canvasData, target, scanI,
                 boardVars, tickVars>>

\* if (numLines == 0) return; else every line is printed, centred
drawMessage_print ==
  /\ At("drawMessage_print")
  /\ screen' = IF Len(lines) = 0 THEN screen
               ELSE Show("lines", Printed(lines))
  /\ Return
  /\ UNCHANGED <<http, fetchOk, modeVars, timerVars, oledVars, animVars,
                 gridVars, cityVars, envVars, scanVars,
                 boardVars, tickVars>>

NextText ==
  \/ \E m \in TextInputs : TextFrame(m)
  \/ drawMessage
  \/ drawMessage_scan
  \/ drawMessage_print

SpecText == InitText /\ [][NextText]_vars

-----------------------------------------------------------------------------
(* Claims about the text layout *)

\* a is a run of consecutive characters of b
RefIsInfix(a, b) ==
  \E k \in 0..(Len(b) - Len(a)) : SubSeq(b, k + 1, k + Len(a)) = a

\* the segment of msg that contains the 0-based position start
RefSegmentAt(msg, start) ==
  LET upto == IF start > Len(msg) THEN Len(msg) ELSE start
  IN  RefSplit(msg, "\n")[1 + Cardinality({k \in 1..upto : msg[k] = "\n"})]

RECURSIVE RefStrip(_)
RefStrip(s) ==
  IF Len(s) > 0 /\ s[1] = " " THEN RefStrip(Tail(s))
  ELSE IF Len(s) > 0 /\ s[Len(s)] = " " THEN RefStrip(SubSeq(s, 1, Len(s) - 1))
  ELSE s

\* the wrap rule: n characters go on the line, n being the number of
\* characters before the last space that leaves at most cols of them, or cols
RECURSIVE RefWrap(_, _)
RefWrap(seg, cols) ==
  IF Len(seg) = 0 THEN <<>>
  ELSE IF Len(seg) <= cols THEN <<seg>>
  ELSE LET before == {n \in 1..cols : seg[n + 1] = " "}
           n == IF before = {} THEN cols
                ELSE CHOOSE m \in before : \A k \in before : k <= m
       IN  <<SubSeq(seg, 1, n)>>
             \o RefWrap(RefStrip(SubSeq(seg, n + 1, Len(seg))), cols)

RefTake(ls, n) == IF Len(ls) > n THEN SubSeq(ls, 1, n) ELSE ls

HelloWorldFoo ==
  <<"H", "e", "l", "l", "o", " ", "W", "o", "r", "l", "d", " ", "F", "o", "o">>

\* C11: for any message drawMessage lays out at most 5 lines of at most 19
\* characters each, on the way and on the display, and once 5 lines are
\* reached the scan ends with the lines as they are: the rest is dropped.
C11_LayoutWithinLimits ==
  /\ [](/\ Len(lines) <= 5
        /\ \A k \in 1..Len(lines) : Len(lines[k]) <= 19
        /\ screen.kind = "lines"
             => (/\ Len(screen.data) <= 5
                 /\ \A k \in 1..Len(screen.data) : Len(screen.data[k]) <= 19))
  /\ [][/\ (At("drawMessage_scan") /\ Len(lines) = 5)
             => (lines' = lines /\ pc' = <<"drawMessage_print">>)
        /\ At("drawMessage_print")
             => (Len(lines) > 0 => screen' = Show("lines", lines))
       ]_vars

C11_Witness ==
  /\ pc = <<>>
  /\ displayMessage = Word_Long \o <<"\n">> \o Word_Long
  /\ screen.kind = "lines"
  /\ Len(screen.data) = 5
  /\ Len(screen.data[3]) = 2
  /\ Len(screen.data[5]) = 19

\* C12: no laid-out line contains a '\n', and the lines a segment adds are
\* runs of characters of that one segment of the message, the segments
\* being the parts between the '\n' taken in order.
C12_BreaksAreBoundaries ==
  /\ [](\A k \in 1..Len(lines) : "\n" \notin RefRange(lines[k]))
  /\ [][At("drawMessage_scan")
          => /\ Len(lines') >= Len(lines)
             /\ SubSeq(lines', 1, Len(lines)) = lines
             /\ \A k \in (Len(lines) + 1)..Len(lines') :
                  RefIsInfix(lines'[k], RefSegmentAt(displayMessage, lineStart))
       ]_vars

C12_Witness ==
  /\ At("drawMessage_print")
  /\ displayMessage = Word_Hello \o <<"\n", "\n">> \o Word_Days
  /\ lines = <<Word_Hello, Word_Days>>

\* C13: a segment longer than 19 characters is laid out as its prefix up to
\* the last space among positions 1..19 (that space dropped), or as its first
\* 19 characters when there is none, followed by the layout of the rest, up
\* to the line limit; at width 10 "Hello World Foo" gives "Hello", "World Foo".
C13_WrapAtLastSpace ==
  /\ Layout(HelloWorldFoo, 10, 5)
       = <<Word_Hello, <<"W", "o", "r", "l", "d", " ", "F", "o", "o">> >>
  /\ [][(At("drawMessage_scan") /\ lineStart <= Len(displayMessage)
           /\ Len(lines) < 5)
          => lines' = RefTake(lines \o RefWrap(RefSegmentAt(displayMessage,
                                                            lineStart), 19), 5)
       ]_vars

C13_Witness ==
  /\ At("drawMessage_print")
  /\ displayMessage = Word_Hello \o Word_Days \o <<" ">> \o Word_Hello
  /\ lines = <<Word_Hello \o Word_Days, Word_Hello>>

-----------------------------------------------------------------------------
(* Text mode on the device: the sketch boots, every poll answers text mode *)
(* and every settings fetch names an animation; an iteration follows the   *)
(* last one at once, or late enough for the poll and the refresh to be due. *)

MaxClockAnim == 9000     \* loop() is not entered once millis() has passed this
MaxTicksAnim == 65       \* loop() is not entered more often than this

ElapsedAnim == {0, 5100}

AnimPolls == {Ok(("userId" :> "u1") @@ ("activeSketch" :> "oled"))}

AnimationInputs == {0, 1, 2, 3, 4, 5, 7}

AnimResponses ==
  {Ok(("message" :> Msg_Hi) @@ ("animation" :> a)) : a \in AnimationInputs}

NextAnim ==
  \/ Setup
  \/ setupWiFiManager
  \/ \E ok \in BOOLEAN, t \in ConnectTimes : autoConnect(ok, <<>>, t)
  \/ restart
  \/ SetupSync
  \/ SetupSynced
  \/ \E d \in ElapsedAnim : LoopEnterBy(d, TRUE, MaxClockAnim, MaxTicksAnim)
  \/ LoopPolled
  \/ LoopModeChange
  \/ LoopSetLast
  \/ LoopRun
  \/ \E r \in AnimPolls : fetchUserData(r)
  \/ initCurrentMode
  \/ \E label \in DelayLabels : delay(label)
  \/ \E r \in AnimResponses : fetchOledSettings(r)
  \/ loopOLED
  \/ loopOLED_fetched
  \/ loopOLED_draw

SpecAnim == Init /\ [][NextAnim]_vars

\* C14: 0 <= pulseState <= 40 and 0 <= breatheSize <= 30 in every state, so
\* that at most 5 frames are drawn and the inset stays within 0..10.
C14_CountersBounded ==
  /\ pulseState \in 0..40
  /\ 1 + (pulseState \div 10) <= 5
  /\ breatheSize \in 0..30
  /\ breatheSize \div 3 \in 0..10

C14_Witness ==
  /\ At("loop")
  /\ currentAnimation = 2
  /\ pulseState = 40
  /\ breatheSize = 30

\* C15: in a step of the pulse border (of the breathing box) the direction
\* changes sign if and only if the counter after the step is 0 or 40 (0 or
\* 30); otherwise it stays, and the counter moves by the direction's step.
C15_PingPong ==
  [][/\ pulseDirection \in {-1, 1} /\ breatheDir \in {-1, 1}
     /\ IF pulseState' # pulseState
        THEN /\ pulseState' = pulseState + 2 * pulseDirection
             /\ pulseDirection' = IF pulseState' \in {0, 40}
                                  THEN 0 - pulseDirection ELSE pulseDirection
        ELSE pulseDirection' = pulseDirection
     /\ IF breatheSize' # breatheSize
        THEN /\ breatheSize' = breatheSize + breatheDir
             /\ breatheDir' = IF breatheSize' \in {0, 30}
                              THEN 0 - breatheDir ELSE breatheDir
        ELSE breatheDir' = breatheDir
    ]_vars

C15_Witness ==
  /\ At("loop")
  /\ pulseState = 38 /\ pulseDirection = -1
  /\ breatheSize = 1 /\ breatheDir = 1
  /\ screen.kind = "text"

-----------------------------------------------------------------------------
(* Claims about the selected city *)

\* the selectedCity of the response a weather-settings fetch has just taken
SelectionTaken(r) ==
  r.code = HTTP_CODE_OK /\ r.parsed /\ "selectedCity" \in DOMAIN r.doc

\* C16: currentCity is in -1..NUM_CITIES-1 in every state, and a settings
\* response whose selectedCity is an integer outside 0..NUM_CITIES-1 leaves
\* currentCity (and the loaded flag) as it was.
C16_CityInRange ==
  /\ [](currentCity \in -1..39)
  /\ [][(At("fetchWeatherSettings") /\ SelectionTaken(http')
           /\ http'.doc["selectedCity"] \notin 0..39)
          => UNCHANGED <<currentCity, weatherDataLoaded>>
       ]_vars

C16_Witness ==
  /\ http = Ok("selectedCity" :> -1)
  /\ currentCity = 39
  /\ lastCity = 39

\* C17 as claimed: a settings response whose selectedCity is out of range
\* sets currentCity to the sentinel -1.
C17_OutOfRangeClamped ==
  [][(At("fetchWeatherSettings") /\ SelectionTaken(http')
        /\ http'.doc["selectedCity"] \notin 0..39)
       => currentCity' = -1
    ]_vars

\* C17 as amended: currentCity is set to the sentinel -1 by a settings response
\* that carries no selectedCity, and by nothing else: an out-of-range
\* selectedCity never turns a selected city into -1.
C17_SentinelOnlyWhenAbsent ==
  [][/\ (currentCity' = -1 /\ currentCity # -1)
          => (/\ At("fetchWeatherSettings")
              /\ http'.code = HTTP_CODE_OK /\ http'.parsed
              /\ "selectedCity" \notin DOMAIN http'.doc)
     /\ (At("fetchWeatherSettings") /\ http'.code = HTTP_CODE_OK /\ http'.parsed
           /\ "selectedCity" \notin DOMAIN http'.doc)
          => currentCity' = -1
    ]_vars

C17_Witness ==
  /\ http = Ok("selectedCity" :> 40)
  /\ currentCity = 0
  /\ currentMode = "weather"

\* C18: with currentCity = -1 the weather tick renders the "no location
\* chosen" placeholder and ends, and mode entry ends after the settings fetch;
\* fetchWeather is never called and the timezone never applied without a city.
C18_NoCityNoFetch ==
  /\ [](At("fetchWeather") => currentCity >= 0)
  /\ [][/\ (At("loopWeather_city") /\ currentCity = -1)
             => (/\ screen' = Show("default", "no-location")
                 /\ pc' = Tail(pc)
                 /\ UNCHANGED <<tzCity, lastCity, cities>>)
        /\ (At("init_weather") /\ currentCity = -1)
             => (pc' = Tail(pc) /\ UNCHANGED <<tzCity, cities>>)
        /\ (tzCity' # tzCity) => (currentCity >= 0 /\ tzCity' = currentCity)
       ]_vars

C18_Witness ==
  /\ pc = <<"loop">>
  /\ currentMode = "weather"
  /\ lastMode = "weather"
  /\ currentCity = -1
  /\ lastCity = 0
  /\ screen = Show("default", "no-location")

-----------------------------------------------------------------------------
(* Weather mode over three iterations of loop(): WiFi stays up, the polls   *)
(* answer weather or text mode, and every weather fetch succeeds.           *)

MaxClockWeather == 11800   \* no loop() is entered after this reading of millis()
MaxTicksWeather == 3       \* no more iterations of loop() than this

ElapsedWeather == {0, 3100}

WeatherModePolls ==
  {Ok(("userId" :> "u1") @@ ("activeSketch" :> m)) : m \in {"weather", "oled"}}

WeatherCityResponses == {Ok("selectedCity" :> c) : c \in {0, 39}}

WeatherDataResponses == {Ok(("temp" :> 25) @@ ("humidity" :> 60))}

NextWeather ==
  \/ Setup
  \/ setupWiFiManager
  \/ \E ok \in BOOLEAN, t \in ConnectTimes : autoConnect(ok, <<>>, t)
  \/ restart
  \/ SetupSync
  \/ SetupSynced
  \/ \E d \in ElapsedWeather : LoopEnterBy(d, TRUE, MaxClockWeather, MaxTicksWeather)
  \/ LoopPolled
  \/ LoopModeChange
  \/ LoopSetLast
  \/ LoopRun
  \/ \E r \in WeatherModePolls : fetchUserData(r)
  \/ initCurrentMode
  \/ \E label \in DelayLabels : delay(label)
  \/ InitWeather
  \/ fetchOledSettings(Timeout)
  \/ loopOLED
  \/ loopOLED_fetched
  \/ loopOLED_draw
  \/ \E r \in WeatherCityResponses : fetchWeatherSettings(r)
  \/ \E r \in WeatherDataResponses : fetchWeather(r)
  \/ loopWeather
  \/ loopWeather_settings
  \/ loopWeather_city
  \/ loopWeather_fetched
  \/ \E t \in FrameTimes : loopWeather_draw(TRUE, t)

SpecWeather == Init /\ [][NextWeather]_vars

\* the tz member of every entry of cities[]
CityTz ==
  <<"IST-5:30", "IST-5:30", "IST-5:30", "IST-5:30", "GST-4", "GST-4",
    "AST-3", "SGT-8", "JST-9", "CST-8", "KST-9", "ICT-7", "HKT-8", "TRT-3",
    "CET-1CEST,M3.5.0/2,M10.5.0/3", "CET-1CEST,M3.5.0/2,M10.5.0/3",
    "GMT0BST,M3.5.0/1,M10.5.0", "CET-1CEST,M3.5.0,M10.5.0/3",
    "CET-1CEST,M3.5.0,M10.5.0/3", "CET-1CEST,M3.5.0,M10.5.0/3",
    "CET-1CEST,M3.5.0,M10.5.0/3", "MSK-3", "EST5EDT,M3.2.0,M11.1.0",
    "PST8PDT,M3.2.0,M11.1.0", "CST6CDT,M3.2.0,M11.1.0",
    "PST8PDT,M3.2.0,M11.1.0", "EST5EDT,M3.2.0,M11.1.0",
    "PST8PDT,M3.2.0,M11.1.0", "CST6CDT,M4.1.0,M10.5.0",
    "BRT3BRST,M10.3.0/0,M2.3.0/0", "ART3", "PET5", "COT5", "EET-2", "WAT-1",
    "SAST-2", "EAT-3", "AEST-10AEDT,M10.1.0,M4.1.0/3",
    "AEST-10AEDT,M10.1.0,M4.1.0/3", "NZST-12NZDT,M9.5.0,M4.1.0/3">>

\* the rule setenv("TZ") holds: that of the city last applied, UTC before any
TzRule(c) == IF c < 0 THEN "UTC0" ELSE CityTz[c + 1]

\* C19: whenever fetchWeather is called or drawWeatherOLED renders, the
\* timezone rule applied last is the rule of cities[currentCity].
C19_TimezoneFollowsCity ==
  (At("fetchWeather") \/ At("loopWeather_draw"))
    => TzRule(tzCity) = TzRule(currentCity)

-----------------------------------------------------------------------------
(* Claims about the device key *)

RefValidKey(k) == Len(k) >= 4 /\ SubSeq(k, 1, 4) = <<"e", "s", "p", "_">>

RequestLabels == ModeFetchLabels \cup {"fetchUserData"}

\* C20: the apiKey in memory is empty or starts with "esp_" in every state,
\* and no request is made with a key that does not start with "esp_".
C20_KeyValidOrEmpty ==
  /\ apiKey = <<>> \/ RefValidKey(apiKey)
  /\ (pc # <<>> /\ Head(pc) \in RequestLabels /\ apiKey # <<>>)
       => RefValidKey(apiKey)

-----------------------------------------------------------------------------
(* The controller with the config button: every tick samples the button,   *)
(* pressed or released, and a long press runs the configuration portal.    *)

MaxClockConfig == 7500     \* no loop() is entered after this reading of millis()
MaxTicksConfig == 2        \* no more iterations of loop() than this

\* none, or what takes the first loop() after a boot into no mode to exactly
\* MODE_CHECK_INTERVAL
ElapsedConfig == {0, 1000}

ConfigKeys == {<<>>, ValidKey}

ConfigPolls ==
  {Timeout} \cup {Ok(("userId" :> "u1") @@ ("activeSketch" :> m)) :
                    m \in {"", "oled", "pixel-paint", "image-to-pixel", "weather"}}

\* the mode poll and the text and canvas fetches succeed or time out; the
\* weather fetches succeed
ConfigOled == {Timeout, Ok(("message" :> Msg_Hi) @@ ("animation" :> 2))}

ConfigCanvas == {Timeout, Ok("canvas" :> Data_One)}

ConfigCity == {Ok("selectedCity" :> 0)}

ConfigWeather == {Ok(("temp" :> 25) @@ ("humidity" :> 60))}

NextConfigBy(limit, most) ==
  \/ Setup
  \/ setupWiFiManager
  \/ \E ok \in BOOLEAN, t \in ConnectTimes : autoConnect(ok, <<>>, t)
  \/ restart
  \/ SetupSync
  \/ SetupSynced
  \/ \E d \in ElapsedConfig, w \in BOOLEAN : LoopEnterBy(d, w, limit, most)
  \/ \E d \in ElapsedConfig : LoopPressedBy(d, limit, most)
  \/ checkConfigButton_pressStart
  \/ \E pin \in PinLevels, dt \in HoldSteps : checkConfigButton_hold(pin, dt)
  \/ \E entered \in ConfigKeys, t \in PortalTimes : startConfigPortal(entered, t)
  \/ \E w \in BOOLEAN : LoopChecked(w)
  \/ LoopPolled
  \/ LoopModeChange
  \/ LoopSetLast
  \/ LoopRun
  \/ \E r \in ConfigPolls : fetchUserData(r)
  \/ initCurrentMode
  \/ \E label \in DelayLabels : delay(label)
  \/ InitWeather
  \/ \E r \in ConfigOled : fetchOledSettings(r)
  \/ loopOLED
  \/ loopOLED_fetched
  \/ loopOLED_draw
  \/ \E r \in ConfigCanvas : fetchCanvas(r)
  \/ loopPixelPaint
  \/ loopPixelPaint_fetched
  \/ loopPixelPaint_draw
  \/ \E r \in ConfigCanvas : fetchImagePixel(r)
  \/ loopImageToPixel
  \/ loopImageToPixel_fetched
  \/ loopImageToPixel_draw
  \/ \E r \in ConfigCity : fetchWeatherSettings(r)
  \/ \E r \in ConfigWeather : fetchWeather(r)
  \/ loopWeather
  \/ loopWeather_settings
  \/ loopWeather_city
  \/ loopWeather_fetched
  \/ \E t \in FrameTimes : loopWeather_draw(TRUE, t)

NextConfig == NextConfigBy(MaxClockConfig, MaxTicksConfig)

SpecConfig == Init /\ [][NextConfig]_vars

-----------------------------------------------------------------------------
(* Claims about the key gate, WiFi loss and the config button *)

ModeData ==
  <<currentMode, displayMessage, currentAnimation, canvas, imagePixelCanvas,
    currentCity>>

\* the step in which loop() tests the key: the start of a tick whose button
\* sample is released, or the return from checkConfigButton()
KeyTest == (At("loop") /\ configPin' = "HIGH") \/ At("loop_checks")

\* C21: no request is ever started while apiKey is empty, from setup(), from
\* loop() or after the portal; a tick that finds apiKey empty shows the
\* needs-configuration screen, waits 2 s and returns, and no step taken with an empty key
\* changes the mode, the message, the animation, a canvas or the city.
C21_NoKeyNoFetch ==
  /\ []((pc # <<>> /\ Head(pc) \in RequestLabels) => apiKey # <<>>)
  /\ [][/\ (KeyTest /\ apiKey = <<>>)
             => /\ screen' = Show("status", "NoApiKey")
                /\ pc' = <<"delay_2000", "loop">>
        /\ (apiKey = <<>> /\ apiKey' = <<>>) => UNCHANGED ModeData
       ]_vars

\* a portal that closed with the key still empty, and the tick went on to the
\* needs-configuration screen
C21_Witness ==
  /\ apiKey = <<>>
  /\ At("loop")
  /\ clock > now + LongPress
  /\ screen = Show("status", "NoApiKey")

\* C22: a tick that finds WiFi disconnected (the key being set) shows the
\* no-WiFi status, asks for a reconnect, waits 5 s and returns to loop without a poll
\* and without changing the mode, its data or any timestamp; a tick that finds
\* WiFi connected goes on to the mode poll or to the dispatch of the mode it
\* had, also right after a disconnected tick.
C22_WiFiLossNotFatal ==
  [][/\ (KeyTest /\ apiKey # <<>> /\ ~wifiOk')
          => /\ screen' = Show("status", "NoWiFi")
             /\ reconnecting'
             /\ pc' = <<"delay_5000", "loop">>
             /\ UNCHANGED <<ModeData, modeVars, timerVars>>
     /\ (KeyTest /\ apiKey # <<>> /\ wifiOk')
          => /\ pc' = IF now' - lastModeCheck > MODE_CHECK_INTERVAL
                      THEN <<"fetchUserData", "loop_polled", "loop">>
                      ELSE <<"loop_modechange", "loop">>
             /\ UNCHANGED <<ModeData, modeVars>>
    ]_vars

\* a tick resumed with WiFi back while the display still shows the no-WiFi
\* status of the tick before, the mode retained
C22_Witness ==
  /\ wifiOk
  /\ ~reconnecting
  /\ screen = Show("status", "NoWiFi")
  /\ currentMode = "oled"
  /\ pc # <<>>
  /\ Head(pc) \in {"fetchUserData", "loop_modechange"}

\* what a press that opens nothing leaves alone: everything but the time, the
\* pin sample and the position in checkConfigButton()
ButtonFrame ==
  <<http, fetchOk, screen, modeVars, timerVars, oledVars, animVars, gridVars,
    cityVars, now, apiKey, wifiOk, scanVars, flashVars, reconnecting>>

PortalOpens == Head(pc') = "startConfigPortal" /\ ~At("startConfigPortal")

\* C23 as stated: the portal opens exactly when the button, sampled low at the
\* start of the tick, is still low 3000 ms or more after the debounce; a
\* release opens nothing and changes no state.
C23_OpensAtThreeSeconds ==
  /\ [](At("checkConfigButton_hold") => pressStart = now + 50)
  /\ [][/\ PortalOpens => (At("checkConfigButton_hold") /\ configPin' = "LOW")
        /\ (At("checkConfigButton_hold") /\ configPin' = "LOW")
             => (PortalOpens <=> clock' - pressStart >= 3000)
        /\ (At("checkConfigButton_hold") /\ ~PortalOpens) => UNCHANGED ButtonFrame
        /\ (At("checkConfigButton_hold") /\ configPin' = "HIGH")
             => pc' = Tail(pc)
       ]_vars

\* C23, amended: the portal opens exactly when the button, sampled low at the
\* start of the tick, is still low more than 3000 ms after the debounce; a
\* release, or a hold of up to 3000 ms, opens nothing and changes no state.
C23_OpensAfterThreeSeconds ==
  /\ [](At("checkConfigButton_hold") => pressStart = now + 50)
  /\ [][/\ PortalOpens => (At("checkConfigButton_hold") /\ configPin' = "LOW")
        /\ (At("checkConfigButton_hold") /\ configPin' = "LOW")
             => (PortalOpens <=> clock' - pressStart > 3000)
        /\ (At("checkConfigButton_hold") /\ ~PortalOpens) => UNCHANGED ButtonFrame
        /\ (At("checkConfigButton_hold") /\ configPin' = "HIGH")
             => pc' = Tail(pc)
       ]_vars

\* the portal about to open, the button seen low 3001 ms after the debounce
C23_Witness ==
  /\ At("startConfigPortal")
  /\ configPin = "LOW"
  /\ clock - pressStart = 3001

\* C24 as stated: whenever the portal returns or times out, the mode is
\* polled again and the current mode is entered again, in this order, before
\* loop() goes on.
C24_PortalAlwaysRefetches ==
  [][At("startConfigPortal")
       => pc' = <<"fetchUserData", "initCurrentMode">> \o Tail(pc)]_vars

\* C24, amended: when the portal returns or times out with a key in memory,
\* the mode is polled again and the current mode is entered again, in this
\* order, before loop() goes on; with no key nothing is polled and loop() goes
\* on to its key test.
C24_PortalRefetchesWithKey ==
  [][At("startConfigPortal")
       => /\ Tail(pc) = <<"loop_checks", "loop">>
          /\ pc' = IF apiKey' # <<>>
                   THEN <<"fetchUserData", "initCurrentMode">> \o Tail(pc)
                   ELSE Tail(pc)]_vars

\* the mode re-entered after the poll that followed the portal, the rest of
\* the tick still to come
C24_Witness ==
  /\ pc = <<"initCurrentMode", "loop_checks", "loop">>
  /\ currentMode = "oled"
  /\ screen = Show("message", "Config Mode")

MaxTicksLive == 1          \* no more iterations of loop() than this

NextConfigLive == NextConfigBy(MaxClockConfig, MaxTicksLive)

\* The controller with the config button, with progress: the sketch is the
\* only thread, so a step that can be taken is taken; time advances between
\* the passes of the hold-wait loop (HoldSteps) and the portal returns or
\* times out (PortalTimes).
SpecConfigLive == Init /\ [][NextConfigLive]_vars /\ WF_vars(NextConfigLive)

\* C25: every call of checkConfigButton() returns to loop(): the hold-wait
\* loop ends by a release or by the threshold, and after the threshold the
\* portal and the refetch end.
C25_ButtonCheckTerminates ==
  (\E k \in 1..Len(pc) : pc[k] = "loop_checks" /\ k > 1) ~> At("loop_checks")

\* back in loop() after a long press, the portal and the refetch
C25_Witness ==
  /\ At("loop_checks")
  /\ clock - now > DelayMs("delay_50") + LongPress
  /\ apiKey # <<>>
  /\ userId = "u1"

\* C26: a long press of the button (3 seconds or more) clears the saved WiFi
\* credentials and restarts the chip, whose setup() then creates the setup
\* access point again: the step that handles the long press leaves no
\* credentials in flash and starts setup() anew.
C26_LongPressResetsWiFi ==
  [][At("startConfigPortal") => (~wifiSaved' /\ pc' = <<"setup">>)]_vars

-----------------------------------------------------------------------------
(* Claims about the ordering of a tick and the persistence of the mode data *)

\* a fetch has been called and has not returned
FetchOutstanding == \E k \in 1..Len(pc) : pc[k] \in RequestLabels

\* C27 as stated: while a fetch is outstanding it is the one thing that runs,
\* and until it has returned no animation counter changes, no timestamp is
\* updated and no frame is rendered.
C27_FetchBlocksAll ==
  [][FetchOutstanding
       => /\ Head(pc) \in RequestLabels
          /\ UNCHANGED <<animVars, timerVars, screen>>]_vars

\* C27, amended: while a fetch is outstanding it is the one thing that runs,
\* and until it has returned no animation counter changes and no timestamp is
\* updated; the only frame rendered is the one that the image-mode fetch
\* draws itself from the grid it has just accepted.
C27_FetchBlocksOthers ==
  [][FetchOutstanding
       => /\ Head(pc) \in RequestLabels
          /\ UNCHANGED <<animVars, timerVars>>
          /\ (screen' # screen)
               => /\ At("fetchImagePixel")
                  /\ http'.code = HTTP_CODE_OK /\ http'.parsed
                  /\ screen' = IF imagePixelHasData'
                               THEN Show("canvas", imagePixelCanvas')
                               ELSE Show("default", "image-to-pixel")]_vars

\* the image-mode fetch of a tick has returned with its grid on the display,
\* its timestamp not yet taken
C27_Witness ==
  /\ At("loopImageToPixel_fetched")
  /\ imagePixelHasData
  /\ screen = Show("canvas", imagePixelCanvas)
  /\ lastImagePixelFetch < now

\* the mode whose fetch operation a label is
FetchMode(label) ==
  CASE label = "fetchOledSettings" -> "oled"
    [] label = "fetchCanvas" -> "pixel-paint"
    [] label = "fetchImagePixel" -> "image-to-pixel"
    [] label \in {"fetchWeatherSettings", "fetchWeather"} -> "weather"

\* C28: mode, message, animation, the two canvases and the city change in no
\* step other than a fetch whose response was accepted (status 200, parsed),
\* so a tick without such a fetch changes none of them; and a mode's fetch
\* operation is only ever called while that mode is the current one.
C28_DataPersists ==
  /\ []((pc # <<>> /\ Head(pc) \in ModeFetchLabels)
          => currentMode = FetchMode(Head(pc)))
  /\ [][(ModeData' # ModeData)
          => /\ Head(pc) \in RequestLabels
             /\ http'.code = HTTP_CODE_OK
             /\ http'.parsed
       ]_vars

\* a text-mode tick whose fetch timed out, the message and animation of an
\* earlier fetch still in place
C28_Witness ==
  /\ At("loopOLED_fetched")
  /\ http = Timeout
  /\ displayMessage = Msg_Hi
  /\ currentAnimation = 2

\* C29: currentAnimation is one of the six declared variants, 0 (none) to 5,
\* in every reachable state, whatever the text-settings responses are.
C29_AnimationDeclared == currentAnimation \in 0..5

-----------------------------------------------------------------------------
(* Claims about the mode poll of loop() *)

PollInvoked == pc' # <<>> /\ Head(pc') = "fetchUserData" /\ ~At("fetchUserData")

\* the tick's key test finds the key set, WiFi connected and the poll due
PollCondition == KeyTest /\ apiKey # <<>> /\ wifiOk' /\ now' - lastModeCheck > 3000

LoopLabels == {"loopOLED", "loopPixelPaint", "loopImageToPixel", "loopWeather"}

\* what C30 says of the poll once it has been invoked: it returns to loop()
\* whatever its result, lastModeCheck is then set to the 'now' read at the
\* start of the tick, and lastModeCheck changes nowhere else
PollBookkeeping ==
  /\ (At("fetchUserData") /\ Tail(pc) = <<"loop_polled", "loop">>)
       => pc' = Tail(pc)
  /\ At("loop_polled") => lastModeCheck' = now
  /\ (lastModeCheck' # lastModeCheck) => At("loop_polled")
  /\ (~At("loop") /\ Head(pc) \notin LoopLabels) => now' = now

\* C30 as stated: after setup() the mode query is invoked exactly in the
\* steps where the key is set, WiFi is connected and now - lastModeCheck >
\* 3000; lastModeCheck is then set to the tick's start time whether the poll
\* succeeded or failed.
C30_PollExactlyWhenDue ==
  [][/\ ~At("setup_sync") => (PollInvoked <=> PollCondition)
     /\ PollBookkeeping
    ]_vars

\* C30, amended: apart from the poll that follows the configuration portal,
\* the mode query is invoked after setup() exactly in the steps where the key
\* is set, WiFi is connected and now - lastModeCheck > 3000; lastModeCheck is
\* then set to the tick's start time whether the poll succeeded or failed.
C30_PeriodicPollExactlyWhenDue ==
  [][/\ (~At("setup_sync") /\ ~At("startConfigPortal"))
          => (PollInvoked <=> PollCondition)
     /\ PollBookkeeping
    ]_vars

\* a periodic poll that failed, with lastModeCheck set to the tick's start
C30_Witness ==
  /\ At("loop_modechange")
  /\ http = Timeout
  /\ ~fetchOk
  /\ now > 0
  /\ lastModeCheck = now

-----------------------------------------------------------------------------
(* The device from boot through its first second of frames: the poll and  *)
(* the portal's refetch answer any of the modes, the settings fetch names  *)
(* any animation index, and the config button is pressed or left alone.    *)

MaxClockEffect == 4000   \* loop() is not entered once millis() has passed this
MaxTicksEffect == 100    \* loop() is not entered more often than this

EffectSelectors == 0..7

EffectPolls ==
  {Ok(("userId" :> "u1") @@ ("activeSketch" :> m)) :
     m \in {"", "oled", "pixel-paint", "image-to-pixel", "weather"}}

EffectResponses ==
  {Ok(("message" :> Msg_Hi) @@ ("animation" :> a)) : a \in EffectSelectors}

NextEffect ==
  \/ Setup
  \/ setupWiFiManager
  \/ \E ok \in BOOLEAN, t \in ConnectTimes : autoConnect(ok, <<>>, t)
  \/ restart
  \/ SetupSync
  \/ SetupSynced
  \/ LoopEnterBy(0, TRUE, MaxClockEffect, MaxTicksEffect)
  \/ LoopPressedBy(0, MaxPressClock, MaxTicksEffect)
  \/ checkConfigButton_pressStart
  \/ \E pin \in PinLevels, dt \in HoldTimes : checkConfigButton_hold(pin, dt)
  \/ \E t \in PortalTimes : startConfigPortal(<<>>, t)
  \/ LoopChecked(TRUE)
  \/ LoopPolled
  \/ LoopModeChange
  \/ LoopSetLast
  \/ LoopRun
  \/ \E r \in EffectPolls : fetchUserData(r)
  \/ initCurrentMode
  \/ \E label \in DelayLabels : delay(label)
  \/ InitWeather
  \/ \E r \in EffectResponses : fetchOledSettings(r)
  \/ loopOLED
  \/ loopOLED_fetched
  \/ loopOLED_draw
  \/ \E r \in ConfigCanvas : fetchCanvas(r)
  \/ loopPixelPaint
  \/ loopPixelPaint_fetched
  \/ loopPixelPaint_draw
  \/ \E r \in ConfigCanvas : fetchImagePixel(r)
  \/ loopImageToPixel
  \/ loopImageToPixel_fetched
  \/ loopImageToPixel_draw
  \/ \E r \in ConfigCity : fetchWeatherSettings(r)
  \/ \E r \in ConfigWeather : fetchWeather(r)
  \/ loopWeather
  \/ loopWeather_settings
  \/ loopWeather_city
  \/ loopWeather_fetched
  \/ \E t \in FrameTimes : loopWeather_draw(TRUE, t)

SpecEffect == Init /\ [][NextEffect]_vars

-----------------------------------------------------------------------------
(* Claims about the effects *)

\* the private counters of effect k
ChaseVars == <<animationPos>>
PulseVars == <<pulseState, pulseDirection>>
SpinVars == <<cornerAngle>>
ScanVars == <<scanPos>>
BreatheVars == <<breatheSize, breatheDir>>

\* C31: a text-mode frame with currentAnimation = k in 1..5 takes one step of
\* effect k and changes the counters of no other effect; with any other
\* selector it changes no counter; and no step other than a text-mode frame
\* changes an animation counter.
C31_OnlySelectedEffectSteps ==
  [][/\ (animVars' # animVars)
          => (At("loopOLED_draw") /\ currentAnimation \in 1..5)
     /\ (At("loopOLED_draw") /\ currentAnimation = 1)
          => /\ animationPos' = (animationPos + 4) % 384
             /\ UNCHANGED <<PulseVars, SpinVars, ScanVars, BreatheVars>>
     /\ (At("loopOLED_draw") /\ currentAnimation = 2)
          => /\ pulseState' = pulseState + 2 * pulseDirection
             /\ pulseDirection' \in {pulseDirection, -pulseDirection}
             /\ UNCHANGED <<ChaseVars, SpinVars, ScanVars, BreatheVars>>
     /\ (At("loopOLED_draw") /\ currentAnimation = 3)
          => /\ cornerAngle' = (cornerAngle + 3) % 80
             /\ UNCHANGED <<ChaseVars, PulseVars, ScanVars, BreatheVars>>
     /\ (At("loopOLED_draw") /\ currentAnimation = 4)
          => /\ scanPos' = (scanPos + 2) % 64
             /\ UNCHANGED <<ChaseVars, PulseVars, SpinVars, BreatheVars>>
     /\ (At("loopOLED_draw") /\ currentAnimation = 5)
          => /\ breatheSize' = breatheSize + breatheDir
             /\ breatheDir' \in {breatheDir, -breatheDir}
             /\ UNCHANGED <<ChaseVars, PulseVars, SpinVars, ScanVars>>
    ]_vars

\* corner spin has stepped, a grid-mode frame follows, every other counter is
\* where the initialisers left it
C31_Witness ==
  /\ currentAnimation = 3
  /\ cornerAngle = 21
  /\ At("loopPixelPaint_draw")
  /\ <<animationPos, pulseState, pulseDirection, scanPos, breatheSize, breatheDir>>
       = <<0, 0, 1, 0, 0, 1>>

\* int activeCorner = (cornerAngle / 20) % 4
ActiveCorner(angle) == (angle \div 20) % 4

\* the number of consecutive frames, from the one drawn at angle a on, that
\* draw the same filled corner
RECURSIVE RefDwell(_)
RefDwell(a) ==
  IF ActiveCorner((a + 3) % 80) = ActiveCorner(a) THEN 1 + RefDwell((a + 3) % 80)
  ELSE 1

\* the frame drawn at angle a is the first one of its corner
RefCornerEntered(a) == a = 0 \/ ActiveCorner((a + 77) % 80) # ActiveCorner(a)

\* the filled corner stays or moves on to the next one, 0, 1, 2, 3, 0
CornerOrderKept ==
  [][ActiveCorner(cornerAngle')
       \in {ActiveCorner(cornerAngle), (ActiveCorner(cornerAngle) + 1) % 4}
    ]_vars

\* every run of frames with the same filled corner is 6 or 7 frames long
CornerDwellSixOrSeven ==
  RefCornerEntered(cornerAngle) => RefDwell(cornerAngle) \in {6, 7}

\* C32: the filled corner of corner spin changes after a fixed number of
\* frames, the same for every corner in every cycle (7, as in the first run
\* from the initial phase), and it always moves on to the next corner in the
\* order 0, 1, 2, 3, 0.
C32_CornerDwellFixed ==
  /\ [](RefCornerEntered(cornerAngle) => RefDwell(cornerAngle) = RefDwell(0))
  /\ CornerOrderKept

\* C33: animationPos moves by 4 modulo 384 and scanPos by 2 modulo 64, both
\* stay inside their modulus, and at every reachable position all pixels of
\* the chase window and all rows of the scan band are on the 128 x 64 display.
C33_WrapsOnDisplay ==
  /\ [](/\ animationPos \in 0..383
        /\ scanPos \in 0..63
        /\ ChasePixels(animationPos) \subseteq (0..127) \X (0..63)
        /\ ScanRows(scanPos) \subseteq 0..63)
  /\ [][/\ animationPos' \in {animationPos, (animationPos + 4) % 384}
        /\ scanPos' \in {scanPos, (scanPos + 2) % 64}
       ]_vars

\* the chase window that runs over the end of the perimeter, left edge back
\* into the top edge
C33_Witness ==
  /\ currentAnimation = 1
  /\ animationPos = 380
  /\ <<0, 3>> \in ChasePixels(animationPos)
  /\ <<25, 2>> \in ChasePixels(animationPos)

-----------------------------------------------------------------------------
(* The weather frame at every time of day: the sketch boots into weather   *)
(* mode with a city selected, and getLocalTime() fills in any local time.  *)

MaxTicksClock == 2       \* loop() is not entered more often than this

\* the poll answers weather mode
ClockPolls == {Ok(("userId" :> "u1") @@ ("activeSketch" :> "weather"))}

\* struct tm values that getLocalTime() fills in
ClockTimes == [hour : 0..23, min : {0, 7, 59}, sec : {0, 59}]

NextClock ==
  \/ Setup
  \/ setupWiFiManager
  \/ \E ok \in BOOLEAN, t \in ConnectTimes : autoConnect(ok, <<>>, t)
  \/ restart
  \/ SetupSync
  \/ SetupSynced
  \/ LoopEnterBy(0, TRUE, MaxClockWeather, MaxTicksClock)
  \/ LoopPolled
  \/ LoopModeChange
  \/ LoopSetLast
  \/ LoopRun
  \/ \E r \in ClockPolls : fetchUserData(r)
  \/ initCurrentMode
  \/ \E label \in DelayLabels : delay(label)
  \/ InitWeather
  \/ \E r \in ConfigCity : fetchWeatherSettings(r)
  \/ \E r \in ConfigWeather : fetchWeather(r)
  \/ loopWeather
  \/ loopWeather_settings
  \/ loopWeather_city
  \/ loopWeather_fetched
  \/ \E k \in BOOLEAN, t \in ClockTimes : loopWeather_draw(k, t)

SpecClock == Init /\ [][NextClock]_vars

\* the hour that a clock line shows, and its AM / PM mark
RefShownHour(text) == RefDigitsValue(SubSeq(text, 1, 2))

RefShownMark(text) == SubSeq(text, Len(text) - 1, Len(text))

\* C34: the clock line shows every 24-hour value h in 0..23 as an hour in
\* 1..12, marked PM exactly when h >= 12 and AM otherwise: 0 as 12 AM, 1..11
\* as themselves, 12 as 12 PM and 13..23 as 1..11 PM.
C34_TwelveHourClock ==
  (screen.kind = "weather") =>
    LET h     == screen.data.tm.hour
        shown == RefShownHour(screen.data.timeStr)
        mark  == RefShownMark(screen.data.timeStr)
    IN  /\ shown \in 1..12
        /\ mark = (IF h >= 12 THEN <<"P", "M">> ELSE <<"A", "M">>)
        /\ (h = 0) => (shown = 12)
        /\ (h \in 1..12) => (shown = h)
        /\ (h \in 13..23) => (shown = h - 12)

\* midnight, shown as 12:07:59 AM
C34_Witness ==
  /\ screen.kind = "weather"
  /\ screen.data.tm = [hour |-> 0, min |-> 7, sec |-> 59]
  /\ screen.data.timeStr = <<"1", "2", ":", "0", "7", ":", "5", "9", " ", "A", "M">>

-----------------------------------------------------------------------------
(* Claims about mode entry, the city catalog and the image grid *)

\* C35: initCurrentMode() is never started for the mode value it last ran
\* for unless currentMode has changed in between, from setup() through the
\* ticks and the return from the portal.
C35_EntryOncePerChange ==
  At("initCurrentMode") => enteredMode # currentMode

CatalogIndex == 0..(NUM_CITIES - 1)

\* C36: whenever cities[currentCity] is used, currentCity is an index of the
\* catalog: at the start of fetchWeather and of the weather frame, when the
\* timezone of the current city is applied, when a weather response is stored
\* (only the current city's entry changes), and when a newly selected city is
\* logged.
C36_CatalogAccessInRange ==
  /\ []((At("fetchWeather") \/ At("loopWeather_draw")) => currentCity \in CatalogIndex)
  /\ [][/\ (tzCity' # tzCity) => (currentCity \in CatalogIndex /\ tzCity' = currentCity)
        /\ (cities' # cities)
             => /\ currentCity \in CatalogIndex
                /\ \A c \in CatalogIndex \ {currentCity} : cities'[c] = cities[c]
        /\ (currentCity' # currentCity /\ currentCity' # -1)
             => currentCity' \in CatalogIndex
       ]_vars

\* the last catalog entry is current, a response naming index 40 has just
\* been declined, and the weather of the entry is about to be fetched
C36_Witness ==
  /\ At("fetchWeather")
  /\ currentCity = NUM_CITIES - 1
  /\ http = Ok("selectedCity" :> NUM_CITIES)

\* C37: whenever imagePixelHasData is false the grid imagePixelCanvas has no
\* cell set, so the default image screen is rendered only when no decoded
\* image is held.
C37_FlagAgreesWithGrid ==
  /\ [](~imagePixelHasData => imagePixelCanvas = {})
  /\ [][(screen' = Show("default", "image-to-pixel") /\ screen' # screen)
          => imagePixelCanvas' = {}]_vars

\* the tokens of a canvas string that hold a ','
RefCommaTokens(s) ==
  {RefTokens(s)[k] : k \in {j \in 1..Len(RefTokens(s)) : "," \in RefRange(RefTokens(s)[j])}}

\* C38: the decoded grid holds exactly the cells of the ';'-delimited tokens
\* that hold a ',', each token decoded by itself: a token without a ','
\* (between two others or as the unfinished last one) gives no cell and
\* changes nothing about the cells of the tokens after it.
C38_CommalessTokensIgnored ==
  Decoded =>
    Grid(target) = UNION {parseCanvasData(tok, {}) : tok \in RefCommaTokens(canvasData)}

-----------------------------------------------------------------------------
(* The timers across the wrap of millis(): the device has been running for  *)
(* 2^32 - 500 ms in one mode, the key is stored, WiFi stays up, every       *)
(* request times out, and loop() runs until millis() has passed 0.          *)

WrapStart == -500          \* millis() = 4294966796 when the last loop() returned
MaxClockWrap == 3600       \* no loop() is entered after this reading of millis()
MaxTicksWrap == 3          \* no more iterations of loop() than this

\* none, or what takes every timer to its interval and to one ms more
ElapsedWrap == {0, 950, 951}

\* the delay() a tick of mode m ends with
TickDelay(m) ==
  CASE m = "oled" -> DelayMs("delay_10")
    [] m \in {"pixel-paint", "image-to-pixel"} -> DelayMs("delay_50")
    [] m = "weather" -> DelayMs("delay_100")

\* the stamp of the running mode's own refresh, and of the weather refresh
WrapStamp(m, own, other) == IF currentMode = m THEN own ELSE other

InitWrap ==
  /\ ticks = 0
  /\ pc = <<"loop">>
  /\ currentMode \in KnownModes
  /\ lastMode = currentMode
  /\ enteredMode = currentMode
  /\ userId = "u1"
  /\ dataLoaded = FALSE
  /\ apiKey = ValidKey
  /\ wifiOk = TRUE
  /\ wifiSaved = TRUE
  /\ eeprom = ValidKey
  /\ reconnecting = FALSE
  /\ configPin = "HIGH"
  /\ pressStart = 0
  /\ http = Timeout
  /\ fetchOk = FALSE
  /\ clock = WrapStart
  /\ now = WrapStart - TickDelay(currentMode)
  /\ lastModeCheck = WrapStart - 2050
  /\ lastOledFetch = WrapStamp("oled", WrapStart - 4050, 0)
  /\ lastCanvasFetch = WrapStamp("pixel-paint", WrapStart - 50, 0)
  /\ lastImagePixelFetch = WrapStamp("image-to-pixel", WrapStart - 50, 0)
  /\ lastWeatherSettingsFetch = WrapStamp("weather", WrapStart - 2050, 0)
  /\ lastWeatherFetch = WrapStamp("weather", WrapStart - 59050, 0)
  /\ displayMessage = Msg_Boot
  /\ currentAnimation = 1
  /\ animationPos = IF currentMode = "oled" THEN 4 ELSE 0
  /\ pulseState = 0
  /\ pulseDirection = 1
  /\ cornerAngle = 0
  /\ scanPos = 0
  /\ breatheSize = 0
  /\ breatheDir = 1
  /\ canvas = {}
  /\ imagePixelCanvas = {}
  /\ pixelPaintHasData = FALSE
  /\ imagePixelHasData = FALSE
  /\ cities = [c \in 0..(NUM_CITIES - 1) |-> [temp |-> 0, humidity |-> 0]]
  /\ currentCity = WrapStamp("weather", 0, -1)
  /\ lastCity = currentCity
  /\ tzCity = currentCity
  /\ weatherDataLoaded = (currentMode = "weather")
  /\ screen = CASE currentMode = "oled" -> Show("text", [msg |-> Msg_Boot, anim |-> 1])
                [] currentMode = "pixel-paint" -> Show("canvas", {})
                [] currentMode = "image-to-pixel" -> Show("default", "image-to-pixel")
                [] OTHER -> Show("message", "weather")
  /\ canvasData = <<>>
  /\ target = "canvas"
  /\ scanI = 0
  /\ lines = <<>>
  /\ lineStart = 0

NextWrap ==
  \/ \E d \in ElapsedWrap : LoopEnterBy(d, TRUE, MaxClockWrap, MaxTicksWrap)
  \/ \E label \in DelayLabels : delay(label)
  \/ LoopPolled
  \/ LoopModeChange
  \/ LoopRun
  \/ fetchUserData(Timeout)
  \/ fetchOledSettings(Timeout)
  \/ loopOLED
  \/ loopOLED_fetched
  \/ loopOLED_draw
  \/ fetchCanvas(Timeout)
  \/ loopPixelPaint
  \/ loopPixelPaint_fetched
  \/ loopPixelPaint_draw
  \/ fetchImagePixel(Timeout)
  \/ loopImageToPixel
  \/ loopImageToPixel_fetched
  \/ loopImageToPixel_draw
  \/ fetchWeatherSettings(Timeout)
  \/ fetchWeather(Timeout)
  \/ loopWeather
  \/ loopWeather_settings
  \/ loopWeather_city
  \/ loopWeather_fetched
  \/ \E k \in BOOLEAN, t \in FrameTimes : loopWeather_draw(k, t)

SpecWrap == InitWrap /\ [][NextWrap]_vars

-----------------------------------------------------------------------------
(* Claims about the timers across the wrap of millis() *)

\* the 32-bit word w as its upper and lower 16 bits, read unsigned
Halves(w) ==
  IF w >= 0 THEN <<w \div 65536, w % 65536>>
  ELSE <<65535 - (((0 - 1) - w) \div 65536), 65535 - (((0 - 1) - w) % 65536)>>

\* the time that passed between the stamp 'last' and the reading t of
\* millis(): over SpecWrap millis() crosses 2^32 once and no stamp is older
\* than 2^31 ms, so the words keep their order in time
RefElapsed(t, last) == t - last

\* C39: every elapsed-time test stays right while millis() wraps from 2^32-1
\* to 0: the mode poll and the text, canvas, image, weather-settings and
\* weather refresh are started exactly when more than their interval has
\* passed since their stamp, before, across and after the wrap.
C39_TimersSurviveWrap ==
  [][/\ (At("loop") /\ clock' # clock) =>
          (Head(pc') = "fetchUserData"
             <=> RefElapsed(clock', lastModeCheck) > MODE_CHECK_INTERVAL)
     /\ (At("loopOLED") /\ pc' # pc) =>
          (Head(pc') = "fetchOledSettings"
             <=> RefElapsed(clock, lastOledFetch) > OLED_FETCH_INTERVAL)
     /\ (At("loopPixelPaint") /\ pc' # pc) =>
          (Head(pc') = "fetchCanvas"
             <=> RefElapsed(clock, lastCanvasFetch) > CANVAS_FETCH_INTERVAL)
     /\ (At("loopImageToPixel") /\ pc' # pc) =>
          (Head(pc') = "fetchImagePixel"
             <=> RefElapsed(clock, lastImagePixelFetch) > IMAGE_PIXEL_FETCH_INTERVAL)
     /\ (At("loopWeather") /\ pc' # pc) =>
          (Head(pc') = "fetchWeatherSettings"
             <=> RefElapsed(clock, lastWeatherSettingsFetch) > WEATHER_SETTINGS_INTERVAL)
     /\ (At("loopWeather_city") /\ pc' # pc /\ currentCity >= 0
           /\ currentCity = lastCity) =>
          (Head(pc') = "fetchWeather"
             <=> RefElapsed(now, lastWeatherFetch) > WEATHER_FETCH_INTERVAL)
    ]_vars

\* the text refresh starts 5001 ms after its stamp: the stamp 4294962746 was
\* taken before the wrap and millis() reads 451 after it
C39_Witness ==
  /\ At("fetchOledSettings")
  /\ Halves(lastOledFetch) = <<65535, 60986>>
  /\ Halves(now) = <<0, 451>>
  /\ Halves(lastModeCheck) = <<0, 451>>

=============================================================================
